---- MODULE Spec2Model ----
(***************************************************************************)
(* Model of the VFS server's operation layer (uspace/srv/vfs/vfs_ops.c).   *)
(*                                                                         *)
(* Every client request is served by one fibril (a task of the model).     *)
(* Fibrils are cooperative: a handler runs without interruption up to the  *)
(* next point at which it can be suspended, i.e. a request to a backend    *)
(* file system or the acquisition of a lock.  One action of the model is   *)
(* the piece of a handler between two such points.                         *)
(*                                                                         *)
(* The node cache, the table of open files, the path resolver and the      *)
(* fibril locks are other files of the server; they are modelled from      *)
(* their contracts.  The backends are honest (they keep the name space     *)
(* they are told to keep) but any request to them may be refused.          *)
(***************************************************************************)
EXTENDS Integers, Sequences, FiniteSets, TLC

\* ------------------------------------------------------------------ bounds

\* Number of fibrils serving requests.
NumTasks == 2
\* Number of file system instances (fs_handle, service_id) that can be mounted.
NumFs == 3
\* Largest node index a backend hands out (index 0 is the root directory).
MaxIndex == 2
\* Slots of the table of open files.
MaxFd == 2
\* Node objects the cache can hold: one for every triplet there is, so that
\* the cache never runs out of memory.
MaxNodes == NumFs * (MaxIndex + 1)
\* How many read locks of the name space one may see held at once.
MaxReaders == 2
\* The references to an open file that are followed.
MaxRefs == 2

Tasks == 1..NumTasks
FsInsts == 1..NumFs
Indices == 0..MaxIndex
Fds == 0..(MaxFd - 1)
NodeIds == 1..MaxNodes
FileIds == 1..MaxFd
NULL == 0

\* ------------------------------------------------------- paths and strings

NUL == "NUL"
Names == {"a", "b"}

\* Canonical paths are C strings: sequences of characters.
Paths ==
    { <<"/">> } \cup
    { <<"/", n>> : n \in Names } \cup
    { <<"/", n, "/", m>> : n \in Names, m \in Names }

\* a[i] of the C string a (0-based, the terminator included).
CharAt(s, i) == IF i < Len(s) THEN s[i + 1] ELSE NUL

\* The components of a canonical (or "/"-prefixed relative) path.
RECURSIVE Components(_)
Components(s) ==
    IF s = <<>> THEN <<>>
    ELSE IF Head(s) = "/" THEN Components(Tail(s))
    ELSE <<Head(s)>> \o Components(Tail(s))

\* str_cmp(mp, "/") == 0
IsRootPath(s) == s = <<"/">>

RECURSIVE first_loop(_, _, _)
first_loop(a, b, res) ==
    IF CharAt(a, res) = CharAt(b, res) /\ CharAt(a, res) # NUL
    THEN first_loop(a, b, res + 1)
    ELSE res

RECURSIVE second_loop(_, _)
second_loop(a, res) ==
    IF res < 0 THEN res
    ELSE IF CharAt(a, res) # "/" THEN second_loop(a, res - 1)
    ELSE res

shared_path(a, b) ==
    LET res == first_loop(a, b, 0)
    IN  IF CharAt(a, res) = CharAt(b, res) THEN res
        ELSE second_loop(a, res - 1)

\* The string s cut at offset n (old[shared] = 0) and s advanced by n.
StrPrefix(s, n) == SubSeq(s, 1, n)
StrSuffix(s, n) == SubSeq(s, n + 1, Len(s))

\* One path is a prefix (component-wise) of the other.
IsPathPrefix(p, q) ==
    LET cp == Components(p)
        cq == Components(q)
    IN  /\ Len(cp) <= Len(cq)
        /\ SubSeq(cq, 1, Len(cp)) = cp

\* ------------------------------------------------------------------- state

VARIABLES
    root,               \* vfs_ops.c: the node of the root file system, or NULL
    nodes,              \* the node cache: node object -> its fields
    fds,                \* the table of open files: slot -> file record, or NULL
    files,              \* the open file records
    namespace_rwlock,   \* vfs_ops.c: [writer, readers]
    mtab_list,          \* vfs_ops.c: list of mounted file systems
    mtab_size,          \* vfs_ops.c: its length, as counted
    mtab_list_lock,     \* vfs_ops.c: the fibril holding the list's mutex, or NULL
    b_inst,             \* backends: the instances that are instantiated (mounted)
    b_type,             \* backends: instance -> index -> "dir" | "file" | "free"
    b_ents,             \* backends: instance -> directory entries <<dir, name, child>>
    b_mounts,           \* backends: the mounts, [mp |-> triplet, mr |-> triplet]
    b_data,             \* backends: instance -> index -> the bytes of the file
    journal,            \* the last requests on open files that were answered
    granted,            \* file record -> the mode bits its opens were granted
    pc,                 \* fibril -> its position in the handler it runs
    loc                 \* fibril -> the local variables of that handler

vars == <<root, nodes, fds, files, namespace_rwlock, mtab_list, mtab_size,
          mtab_list_lock, b_inst, b_type, b_ents, b_mounts, b_data, journal,
          granted, pc, loc>>

vfs_vars == <<root, nodes, fds, files, namespace_rwlock, mtab_list, mtab_size,
              mtab_list_lock>>
backend_vars == <<b_inst, b_type, b_ents, b_mounts, b_data>>
history_vars == <<journal, granted>>

\* ---------------------------------------------------------------- triplets

Trip(fs, idx) == [fs_handle |-> fs, service_id |-> fs, index |-> idx]
NoTrip == [fs_handle |-> 0, service_id |-> 0, index |-> 0]
Triplets == { Trip(fs, idx) : fs \in FsInsts, idx \in Indices }

\* A lookup result: triplet, size, type.
NoLr == [triplet |-> NoTrip, size |-> 0, type |-> "none"]

\* -------------------------------------------------------------- the backends

TypeOf(types, t) == types[t.fs_handle][t.index]

IsMountPoint(t) == \E m \in b_mounts : m.mp = t

\* The root of what is mounted on t, followed through stacked mounts.
RECURSIVE MountedRoot(_, _)
MountedRoot(t, fuel) ==
    IF fuel > 0 /\ IsMountPoint(t)
    THEN MountedRoot((CHOOSE m \in b_mounts : m.mp = t).mr, fuel - 1)
    ELSE t

\* Crossing into the mounted file system, unless the walk is told not to.
Cross(t, lflags, terminal) ==
    IF "L_DISABLE_MOUNTS" \in lflags \/ (terminal /\ "L_MP" \in lflags)
    THEN t
    ELSE MountedRoot(t, NumFs)

Children(ents, t) == { e \in ents[t.fs_handle] : e[1] = t.index }

FreeIndices(types, fs) == { i \in Indices : types[fs][i] = "free" }

LookupFail(rc, types, ents) ==
    [rc |-> rc, lr |-> NoLr, types |-> types, ents |-> ents]

\* The bytes a file is made of, and the byte that fills a hole.
Bytes == {"x", "y"}
Hole == "o"

\* The number of bytes the backend holds for t.
DataSize(t) == Len(b_data[t.fs_handle][t.index])

\* What is not a file holds no bytes.
Scrub(data, types) ==
    [fs \in FsInsts |->
        [i \in Indices |-> IF types[fs][i] = "file" THEN data[fs][i] ELSE <<>>]]

LookupOk(t, types, ents) ==
    [rc |-> "EOK",
     lr |-> [triplet |-> t, size |-> DataSize(t), type |-> TypeOf(types, t)],
     types |-> types, ents |-> ents]

\* The last component names c, an existing node linked in dir under name.
LookupTerminal(dir, name, c, lflags, types, ents) ==
    IF {"L_CREATE", "L_EXCLUSIVE"} \subseteq lflags
    THEN LookupFail("EEXIST", types, ents)
    ELSE IF "L_DIRECTORY" \in lflags /\ TypeOf(types, c) # "dir"
    THEN LookupFail("ENOENT", types, ents)
    ELSE IF "L_FILE" \in lflags /\ TypeOf(types, c) = "dir"
    THEN LookupFail("ENOENT", types, ents)
    ELSE IF "L_UNLINK" \in lflags
    THEN IF "L_DISABLE_MOUNTS" \notin lflags /\ IsMountPoint(c)
         THEN LookupFail("EBUSY", types, ents)
         ELSE IF Children(ents, c) # {}
         THEN LookupFail("EBUSY", types, ents)
         ELSE LookupOk(c, types,
                  [ents EXCEPT ![c.fs_handle] = @ \ {<<dir.index, name, c.index>>}])
    ELSE LookupOk(Cross(c, lflags, TRUE), types, ents)

\* The last component names nothing in dir.
LookupMissing(dir, name, lflags, types, ents) ==
    IF "L_CREATE" \notin lflags
    THEN LookupFail("ENOENT", types, ents)
    ELSE IF FreeIndices(types, dir.fs_handle) = {}
    THEN LookupFail("ENOMEM", types, ents)
    ELSE LET fs == dir.fs_handle
             i == CHOOSE k \in FreeIndices(types, fs) :
                      \A j \in FreeIndices(types, fs) : k <= j
             ty == IF "L_DIRECTORY" \in lflags THEN "dir" ELSE "file"
             types2 == [types EXCEPT ![fs][i] = ty]
         IN  LookupOk(Trip(fs, i), types2,
                 [ents EXCEPT ![fs] = @ \cup {<<dir.index, name, i>>}])

RECURSIVE Resolve(_, _, _, _, _)
Resolve(cur, comps, lflags, types, ents) ==
    IF cur.fs_handle \notin b_inst
    THEN LookupFail("ENOENT", types, ents)
    ELSE IF comps = <<>>
    THEN IF "L_UNLINK" \in lflags
         THEN LookupFail("EBUSY", types, ents)
         ELSE IF {"L_CREATE", "L_EXCLUSIVE"} \subseteq lflags
         THEN LookupFail("EEXIST", types, ents)
         ELSE IF "L_FILE" \in lflags /\ TypeOf(types, cur) = "dir"
         THEN LookupFail("ENOENT", types, ents)
         ELSE IF "L_DIRECTORY" \in lflags /\ TypeOf(types, cur) # "dir"
         THEN LookupFail("ENOENT", types, ents)
         ELSE LookupOk(cur, types, ents)
    ELSE IF TypeOf(types, cur) # "dir"
    THEN LookupFail("ENOENT", types, ents)
    ELSE LET kids == { e \in Children(ents, cur) : e[2] = Head(comps) }
         IN  IF kids = {}
             THEN IF Len(comps) = 1
                  THEN LookupMissing(cur, Head(comps), lflags, types, ents)
                  ELSE LookupFail("ENOENT", types, ents)
             ELSE LET c == Trip(cur.fs_handle, (CHOOSE e \in kids : TRUE)[3])
                  IN  IF Len(comps) = 1
                      THEN LookupTerminal(cur, Head(comps), c, lflags, types, ents)
                      ELSE Resolve(Cross(c, lflags, FALSE), Tail(comps), lflags,
                                   types, ents)

\* vfs_lookup_internal(base, path, lflags, &result) against the backends'
\* state (types, ents): the status, the result and the backends' new state.
vfs_lookup_internal(base, path, lflags, types, ents) ==
    IF base = NoTrip
    THEN LookupFail("ENOENT", types, ents)
    ELSE Resolve(Cross(base, lflags, Components(path) = <<>>), Components(path),
                 lflags, types, ents)

\* vfs_link_internal(base, path, child): the name path, under base, is made to
\* denote child.  The directory is looked up as any path is; the child must be
\* a node of the directory's file system.
vfs_link_internal(base, path, child, types, ents) ==
    LET comps == Components(path)
        dirres == IF base = NoTrip THEN LookupFail("ENOENT", types, ents)
                  ELSE Resolve(Cross(base, {}, Len(comps) <= 1),
                               SubSeq(comps, 1, Len(comps) - 1),
                               {"L_DIRECTORY"}, types, ents)
        dir == dirres.lr.triplet
        name == comps[Len(comps)]
    IN  IF comps = <<>> THEN [rc |-> "EEXIST", ents |-> ents]
        ELSE IF dirres.rc # "EOK" THEN [rc |-> dirres.rc, ents |-> ents]
        ELSE IF dir.fs_handle # child.fs_handle
        THEN [rc |-> "EXDEV", ents |-> ents]
        ELSE IF TypeOf(types, child) = "free"
        THEN [rc |-> "ENOENT", ents |-> ents]
        ELSE IF \E e \in Children(ents, dir) : e[2] = name
        THEN [rc |-> "EEXIST", ents |-> ents]
        ELSE [rc |-> "EOK",
              ents |-> [ents EXCEPT ![dir.fs_handle] =
                            @ \cup {<<dir.index, name, child.index>>}]]

\* VFS_OUT_DESTROY: the backend frees a node that no name denotes any more.
BackendDestroy(t, types, ents) ==
    IF t.index # 0 /\ ~(\E e \in ents[t.fs_handle] : e[3] = t.index)
    THEN [types EXCEPT ![t.fs_handle][t.index] = "free"]
    ELSE types

\* ------------------------------------------------------------ the node cache

FreeNode == [triplet |-> NoTrip, refcnt |-> 0, size |-> 0, type |-> "none",
             rd |-> {}, wr |-> NULL]

Cached(ns) == { n \in NodeIds : ns[n].triplet # NoTrip }

MinOf(S) == CHOOSE x \in S : \A y \in S : x <= y

\* The memory a new node gets: every triplet has a place of its own, taken
\* when it is free.
HomeOf(t) == (t.fs_handle - 1) * (MaxIndex + 1) + t.index + 1

NewNode(ns, lr) ==
    IF HomeOf(lr.triplet) \in NodeIds \ Cached(ns) THEN HomeOf(lr.triplet)
    ELSE MinOf(NodeIds \ Cached(ns))

NodeFor(lr) == [FreeNode EXCEPT !.triplet = lr.triplet, !.refcnt = 1,
                                !.size = lr.size, !.type = lr.type]

\* vfs_node_get(&lr): the node of the triplet, one reference more; a new node
\* with one reference when the triplet has none.  [id, nodes]
vfs_node_get(ns, lr) ==
    LET hit == { n \in Cached(ns) : ns[n].triplet = lr.triplet }
        free == NodeIds \ Cached(ns)
    IN  IF hit # {}
        THEN [id |-> MinOf(hit),
              nodes |-> [ns EXCEPT ![MinOf(hit)].refcnt = @ + 1]]
        ELSE IF free = {}
        THEN [id |-> NULL, nodes |-> ns]
        ELSE [id |-> NewNode(ns, lr),
              nodes |-> [ns EXCEPT ![NewNode(ns, lr)] = NodeFor(lr)]]

\* vfs_node_put(node): one reference less; the last one takes the node out of
\* the cache and has the backend destroy it.  [nodes, types]
vfs_node_put(ns, types, ents, n) ==
    IF ns[n].refcnt > 1
    THEN [nodes |-> [ns EXCEPT ![n].refcnt = @ - 1], types |-> types]
    ELSE [nodes |-> [ns EXCEPT ![n] = FreeNode],
          types |-> BackendDestroy(ns[n].triplet, types, ents)]

\* vfs_node_forget(node): out of the cache, the backend is not told.
vfs_node_forget(ns, n) == [ns EXCEPT ![n] = FreeNode]

\* (vfs_triplet_t *) node, for a pointer read before the lock was taken: the
\* node may have left the cache since, and what is read then is anything.
TripletRead(ns, n) ==
    IF n = NULL THEN {NoTrip}
    ELSE IF ns[n].triplet # NoTrip THEN {ns[n].triplet}
    ELSE Triplets \cup {NoTrip}

RECURSIVE SumRefs(_, _, _, _)
SumRefs(ns, fs_handle, service_id, n) ==
    IF n = 0 THEN 0
    ELSE SumRefs(ns, fs_handle, service_id, n - 1) +
         (IF ns[n].triplet.fs_handle = fs_handle /\
             ns[n].triplet.service_id = service_id
          THEN ns[n].refcnt ELSE 0)

vfs_nodes_refcount_sum_get(ns, fs_handle, service_id) ==
    SumRefs(ns, fs_handle, service_id, MaxNodes)

\* ------------------------------------------------------ the open file table

FreeFile == [node |-> NULL, pos |-> 0, open_read |-> FALSE, open_write |-> FALSE,
             append |-> FALSE, permissions |-> {}, refcnt |-> 0, lock |-> NULL]

FreeSlots(fd_tab) == { fd \in Fds : fd_tab[fd] = NULL }

\* File records neither in a slot nor referenced.
FreeFiles(fd_tab, fs) ==
    { f \in FileIds : fs[f].refcnt = 0 /\ \A fd \in Fds : fd_tab[fd] # f }

\* vfs_file_get(fd): the record in the slot, one reference more. [file, files]
vfs_file_get(fd_tab, fs, fd) ==
    IF fd \in Fds /\ fd_tab[fd] # NULL
    THEN [file |-> fd_tab[fd], files |-> [fs EXCEPT ![fd_tab[fd]].refcnt = @ + 1]]
    ELSE [file |-> NULL, files |-> fs]

\* vfs_file_put(file): one reference less; a record that is in no slot and has
\* no reference left is given back.
vfs_file_put(fd_tab, fs, f) ==
    IF fs[f].refcnt = 1 /\ \A fd \in Fds : fd_tab[fd] # f
    THEN [fs EXCEPT ![f] = FreeFile]
    ELSE [fs EXCEPT ![f].refcnt = @ - 1]

\* ------------------------------------------------------------------- locks

NoLock == [writer |-> NULL, readers |-> [t \in Tasks |-> 0]]

RECURSIVE SumOver(_, _)
SumOver(f, n) == IF n = 0 THEN 0 ELSE f[n] + SumOver(f, n - 1)

Readers(l) == SumOver(l.readers, NumTasks)

CanWriteLock(l) == l.writer = NULL /\ Readers(l) = 0
CanReadLock(l) == l.writer = NULL

write_lock(l, t) == [l EXCEPT !.writer = t]
write_unlock(l, t) == [l EXCEPT !.writer = NULL]
read_lock(l, t) == [l EXCEPT !.readers[t] = @ + 1]
read_unlock(l, t) == [l EXCEPT !.readers[t] = @ - 1]

\* ----------------------------------------------------- requests and replies

Loc0 == [op |-> "none", answers |-> 0, rc |-> "EOK", path |-> <<>>,
         path2 |-> <<>>, fs |-> 0, flags |-> {}, fd |-> -1, fd2 |-> -1,
         parent |-> NULL, file |-> NULL, node |-> NULL, node2 |-> NULL,
         base |-> NoTrip, lr |-> NoLr, lr2 |-> NoLr, flag |-> FALSE,
         shared |-> 0, rbase |-> NoTrip, pre_a |-> NoTrip, pre_b |-> NoTrip,
         off |-> 0, whence |-> "none", notes |-> {},
         cur |-> 0, got |-> <<>>, sent |-> <<>>]

\* The handler returns.  The fibril stays at "ret" with what the request came
\* to (the number of answers to the request, the last status answered) until
\* it takes the next request.
Return(t, op, answers, rc, notes) ==
    /\ pc' = [pc EXCEPT ![t] = "ret"]
    /\ loc' = [loc EXCEPT ![t] = [Loc0 EXCEPT !.op = op, !.answers = answers,
                                              !.rc = rc, !.notes = notes]]

\* An assertion fails: the server is aborted, no fibril runs any more.
Abort(t, op, answers, notes) ==
    /\ pc' = [pc EXCEPT ![t] = "abort"]
    /\ loc' = [loc EXCEPT ![t] = [Loc0 EXCEPT !.op = op, !.answers = answers,
                                              !.rc = "ABORT", !.notes = notes]]

Alive == \A t \in Tasks : pc[t] # "abort"

\* The fibril is at label, of a server that runs.
At(t, label) == Alive /\ pc[t] = label

\* The handler goes on to the next suspension point.
Goto(t, label, l) ==
    /\ pc' = [pc EXCEPT ![t] = label]
    /\ loc' = [loc EXCEPT ![t] = l]

\* ------------------------------------------------------------------- Init

\* What the file systems hold when the server starts: file system 1 has the
\* directory /a and the empty file /b, the others the file /b of five bytes.
Formatted ==
    [types |-> [fs \in FsInsts |->
                   [i \in Indices |-> IF i = 0 THEN "dir"
                                      ELSE IF i = 1
                                      THEN (IF fs = 1 THEN "dir" ELSE "file")
                                      ELSE IF i = 2 /\ fs = 1 THEN "file"
                                      ELSE "free"]],
     ents |-> [fs \in FsInsts |->
                  IF fs = 1 THEN {<<0, "a", 1>>, <<0, "b", 2>>}
                  ELSE {<<0, "b", 1>>}],
     data |-> [fs \in FsInsts |->
                  [i \in Indices |-> IF fs # 1 /\ i = 1
                                     THEN <<"x", "y", "x", "y", "x">>
                                     ELSE <<>>]]]

Init ==
    /\ b_data = Formatted.data
    /\ journal = <<>>
    /\ granted = [f \in FileIds |-> {}]
    /\ root = NULL
    /\ nodes = [n \in NodeIds |-> FreeNode]
    /\ fds = [fd \in Fds |-> NULL]
    /\ files = [f \in FileIds |-> FreeFile]
    /\ namespace_rwlock = NoLock
    /\ mtab_list = <<>>
    /\ mtab_size = 0
    /\ mtab_list_lock = NULL
    /\ b_inst = {}
    /\ b_type = Formatted.types
    /\ b_ents = Formatted.ents
    /\ b_mounts = {}
    /\ pc = [t \in Tasks |-> "idle"]
    /\ loc = [t \in Tasks |-> Loc0]

\* The connection fibril is ready for its client's next request.
NextRequest(t) ==
    /\ At(t, "ret")
    /\ pc' = [pc EXCEPT ![t] = "idle"]
    /\ loc' = [loc EXCEPT ![t] = Loc0]
    /\ UNCHANGED <<vfs_vars, backend_vars, history_vars>>

\* ------------------------------------------------------------- vfs_mount

MountPaths == { <<"/">>, <<"/", "a">> }

MtabEnt(mp, fs) == [mp |-> mp, fs_name |-> fs, instance |-> 0, service_id |-> fs]

\* vfs_mount() after vfs_mount_internal() returned rc: the request has been
\* answered `answered` times by then.
MountAfterInternal(rc, answered) ==
    IF rc # "EOK"
    THEN [answers |-> answered + 1, rc |-> "ENOTSUP",
          notes |-> {"internal_failed", rc}]
    ELSE [answers |-> answered, rc |-> rc, notes |-> {}]

\* vfs_mount() up to vfs_mount_internal()'s taking of the name space lock,
\* for a file system of fss.
VfsMountStart(t, fss) ==
    /\ At(t, "idle")
    /\ \E mp \in MountPaths, fs \in fss,
          in \in {"ok", "no_data", "no_ping", "unknown_fs", "no_memory"} :
          CASE in = "no_data"    -> Return(t, "mount", 1, "EINVAL", {})
            [] in = "no_ping"    -> Return(t, "mount", 1, "ENOTSUP", {})
            [] in = "unknown_fs" -> Return(t, "mount", 1, "ENOENT", {})
            [] in = "no_memory"  -> Return(t, "mount", 1, "ENOMEM", {})
            [] in = "ok" ->
                 Goto(t, "mi_lock", [Loc0 EXCEPT !.op = "mount", !.path = mp,
                                                 !.fs = fs])
    /\ UNCHANGED <<vfs_vars, backend_vars, history_vars>>

MountRootUnchecked(r, mp) == "EOK"

\* What vfs_mount_internal() answers without asking a backend: no root yet
\* and another path than "/", or a root and the path "/".
MountRootCheck(r, mp) ==
    IF r = NULL /\ ~IsRootPath(mp) THEN "ENOENT"
    ELSE IF r # NULL /\ IsRootPath(mp) THEN "EBUSY"
    ELSE "EOK"

\* vfs_mount_internal(): the lock is taken, the cases that need no backend
\* are answered, the others send their first request.
VfsMountLock(t) ==
    /\ At(t, "mi_lock")
    /\ CanWriteLock(namespace_rwlock)
    /\ LET rc == MountRootCheck(root, loc[t].path)
           r == MountAfterInternal(rc, 1)
       IN  IF rc # "EOK"
           THEN /\ Return(t, "mount", r.answers, r.rc,
                          r.notes \cup {"root_check"})
                /\ UNCHANGED namespace_rwlock
           ELSE /\ namespace_rwlock' = write_lock(namespace_rwlock, t)
                /\ Goto(t, IF root = NULL THEN "mi_mounted" ELSE "mi_lookup",
                        loc[t])
    /\ UNCHANGED <<root, nodes, fds, files, mtab_list, mtab_size, mtab_list_lock,
                   backend_vars,
                   history_vars>>

\* What the mountee answers to VFS_OUT_MOUNTED / the parent to VFS_OUT_MOUNT.
BackendMountRc(outcome, fs, mp) ==
    IF outcome = "refused" THEN "EIO"
    ELSE IF fs \in b_inst THEN "EEXIST"
    ELSE IF mp # NoTrip /\ (IsMountPoint(mp) \/ TypeOf(b_type, mp) # "dir")
    THEN "EBUSY"
    ELSE "EOK"

\* Mounting the root: the mountee's answer to VFS_OUT_MOUNTED.
VfsMountMounted(t) ==
    /\ At(t, "mi_mounted")
    /\ \E outcome \in {"opts_failed", "refused", "ok"} :
          LET fs == loc[t].fs
              rc == IF outcome = "opts_failed" THEN "EIO"
                    ELSE BackendMountRc(outcome, fs, NoTrip)
              mr_res == [triplet |-> Trip(fs, 0), size |-> 0, type |-> "dir"]
              got == vfs_node_get(nodes, mr_res)
          IN  IF rc # "EOK"
              THEN LET r == MountAfterInternal(rc, 1)
                   IN  /\ Return(t, "mount", r.answers, r.rc, r.notes)
                       /\ UNCHANGED <<root, nodes, b_inst>>
              ELSE /\ b_inst' = b_inst \cup {fs}
                   /\ root' = got.id
                   /\ nodes' = got.nodes
                   /\ Goto(t, "m_mtab", [loc[t] EXCEPT !.answers = 1, !.rc = "EOK"])
    /\ namespace_rwlock' = write_unlock(namespace_rwlock, t)
    /\ UNCHANGED <<fds, files, mtab_list, mtab_size, mtab_list_lock, b_type, b_ents,
                   b_mounts,
                   history_vars>>
    /\ b_data' = Scrub(b_data, b_type')

\* Mounting below the root: the mount point has been looked up.
VfsMountLookup(t) ==
    /\ At(t, "mi_lookup")
    /\ \E refused \in BOOLEAN :
          LET res == IF refused THEN LookupFail("EIO", b_type, b_ents)
                     ELSE vfs_lookup_internal(nodes[root].triplet, loc[t].path,
                                              {"L_DIRECTORY"}, b_type, b_ents)
              got == vfs_node_get(nodes, res.lr)
          IN  IF res.rc # "EOK" \/ got.id = NULL
              THEN LET rc == IF res.rc # "EOK" THEN res.rc ELSE "ENOMEM"
                       r == MountAfterInternal(rc, 1)
                   IN  /\ Return(t, "mount", r.answers, r.rc, r.notes)
                       /\ namespace_rwlock' = write_unlock(namespace_rwlock, t)
                       /\ UNCHANGED nodes
              ELSE /\ nodes' = got.nodes
                   /\ Goto(t, "mi_mount", [loc[t] EXCEPT !.node = got.id,
                                                         !.lr = res.lr])
                   /\ UNCHANGED namespace_rwlock
    /\ UNCHANGED <<root, fds, files, mtab_list, mtab_size, mtab_list_lock,
                   backend_vars, history_vars>>

\* A failed mount that keeps its reference to the mount point.
MountFailedKeep(ns, types, ents, mp_node) == [nodes |-> ns, types |-> types]

\* "Mount failed, drop reference to mp_node."
MountFailedPut(ns, types, ents, mp_node) == vfs_node_put(ns, types, ents, mp_node)

\* Mounting below the root: the parent's answer to VFS_OUT_MOUNT.
VfsMountMount(t) ==
    /\ At(t, "mi_mount")
    /\ \E outcome \in {"clone_failed", "opts_failed", "refused", "ok"} :
          LET fs == loc[t].fs
              mp_node == loc[t].node
              rc == IF outcome \in {"clone_failed", "opts_failed"} THEN "EIO"
                    ELSE BackendMountRc(outcome, fs, loc[t].lr.triplet)
              mr_res == [triplet |-> Trip(fs, 0), size |-> 0, type |-> "dir"]
              got == vfs_node_get(nodes, mr_res)
              put == MountFailedPut(nodes, b_type, b_ents, mp_node)
          IN  IF rc # "EOK"
              THEN LET r == MountAfterInternal(rc, 1)
                   IN  /\ nodes' = put.nodes
                       /\ b_type' = put.types
                       /\ Return(t, "mount", r.answers, r.rc, r.notes)
                       /\ UNCHANGED <<b_inst, b_mounts>>
              ELSE /\ b_inst' = b_inst \cup {fs}
                   /\ b_mounts' = b_mounts \cup
                          {[mp |-> loc[t].lr.triplet, mr |-> Trip(fs, 0)]}
                   /\ nodes' = got.nodes
                   /\ Goto(t, "m_mtab", [loc[t] EXCEPT !.answers = 1, !.rc = "EOK",
                                                       !.node2 = got.id])
                   /\ UNCHANGED b_type
    /\ namespace_rwlock' = write_unlock(namespace_rwlock, t)
    /\ UNCHANGED <<root, fds, files, mtab_list, mtab_size, mtab_list_lock, b_ents,
                   history_vars>>
    /\ b_data' = Scrub(b_data, b_type')

\* vfs_mount(): the mount is added to the list of mounted file systems.
VfsMountMtab(t) ==
    /\ At(t, "m_mtab")
    /\ mtab_list_lock = NULL
    /\ mtab_list' = Append(mtab_list, MtabEnt(loc[t].path, loc[t].fs))
    /\ mtab_size' = mtab_size + 1
    /\ Return(t, "mount", loc[t].answers, "EOK", {})
    /\ UNCHANGED <<root, nodes, fds, files, namespace_rwlock, mtab_list_lock,
                   backend_vars, history_vars>>

\* ----------------------------------------------------------- vfs_unmount

\* (vfs_triplet_t *) node: the triplet a node pointer is read as.
TripletAt(ns, n) == IF n = NULL THEN NoTrip ELSE ns[n].triplet

\* Taking no file system for busy.
UnmountNeverBusy(ns, mr_node) == FALSE

\* More references than the mount's and the one just taken: in use.
UnmountBusy(ns, mr_node) ==
    vfs_nodes_refcount_sum_get(ns, ns[mr_node].triplet.fs_handle,
                               ns[mr_node].triplet.service_id) # 2

\* The first entry of the list whose mount point is mp (0: none).
RECURSIVE MtabFind(_, _, _)
MtabFind(list, mp, i) ==
    IF i > Len(list) THEN 0
    ELSE IF list[i].mp = mp THEN i
    ELSE MtabFind(list, mp, i + 1)

SeqRemove(list, i) == SubSeq(list, 1, i - 1) \o SubSeq(list, i + 1, Len(list))

\* The mount point path is received.  When it is not, the request is answered
\* and the handler goes on all the same, with mp never set.
VfsUnmountStartAt(t, paths) ==
    /\ At(t, "idle")
    /\ \E mp \in paths, received \in BOOLEAN :
          Goto(t, "um_lock",
               [Loc0 EXCEPT !.op = "unmount", !.path = mp,
                            !.answers = IF received THEN 0 ELSE 1,
                            !.rc = IF received THEN "EOK" ELSE "EINVAL",
                            !.notes = IF received THEN {} ELSE {"no_path"}])
    /\ UNCHANGED <<vfs_vars, backend_vars, history_vars>>

VfsUnmountStart(t) == VfsUnmountStartAt(t, MountPaths)

VfsUnmountLock(t) ==
    /\ At(t, "um_lock")
    /\ CanWriteLock(namespace_rwlock)
    /\ namespace_rwlock' = write_lock(namespace_rwlock, t)
    /\ Goto(t, "um_lookup", [loc[t] EXCEPT !.base = TripletAt(nodes, root)])
    /\ UNCHANGED <<root, nodes, fds, files, mtab_list, mtab_size, mtab_list_lock,
                   backend_vars,
                   history_vars>>

\* The mounted root has been looked up: the check that nobody uses the file
\* system.  A path that was not received is a pointer that was never set:
\* it is read as some path, or the read faults.
VfsUnmountLookup(t) ==
    /\ At(t, "um_lookup")
    /\ \E outcome \in {"answered", "refused", "fault"} :
          LET res == IF outcome = "refused" THEN LookupFail("EIO", b_type, b_ents)
                     ELSE vfs_lookup_internal(loc[t].base, loc[t].path, {},
                                              b_type, b_ents)
              got == vfs_node_get(nodes, res.lr)
              put == vfs_node_put(got.nodes, b_type, b_ents, got.id)
          IN  IF outcome = "fault"
              THEN /\ "no_path" \in loc[t].notes
                   /\ Abort(t, "unmount", loc[t].answers, {"no_path", "fault"})
                   /\ UNCHANGED <<namespace_rwlock, nodes, b_type>>
              ELSE IF res.rc # "EOK" \/ got.id = NULL
              THEN /\ namespace_rwlock' = write_unlock(namespace_rwlock, t)
                   /\ Return(t, "unmount", loc[t].answers + 1,
                             IF res.rc # "EOK" THEN res.rc ELSE "ENOMEM",
                             loc[t].notes)
                   /\ UNCHANGED <<nodes, b_type>>
              ELSE IF UnmountBusy(got.nodes, got.id)
              THEN /\ namespace_rwlock' = write_unlock(namespace_rwlock, t)
                   /\ nodes' = put.nodes
                   /\ b_type' = put.types
                   /\ Return(t, "unmount", loc[t].answers + 1, "EBUSY",
                             loc[t].notes)
              ELSE /\ nodes' = got.nodes
                   /\ Goto(t, IF IsRootPath(loc[t].path) THEN "um_unmounted"
                              ELSE "um_lookup_mp",
                           [loc[t] EXCEPT !.node = got.id, !.lr = res.lr])
                   /\ UNCHANGED <<namespace_rwlock, b_type>>
    /\ UNCHANGED <<root, fds, files, mtab_list, mtab_size, mtab_list_lock, b_inst,
                   b_ents, b_mounts,
                   history_vars>>
    /\ b_data' = Scrub(b_data, b_type')

\* Unmounting the root: the answer to VFS_OUT_UNMOUNTED.
VfsUnmountUnmounted(t) ==
    /\ At(t, "um_unmounted")
    /\ \E refused \in BOOLEAN :
          LET mr_node == loc[t].node
              put == vfs_node_put(nodes, b_type, b_ents, mr_node)
          IN  IF refused
              THEN /\ nodes' = put.nodes
                   /\ b_type' = put.types
                   /\ Return(t, "unmount", loc[t].answers + 1, "EIO", loc[t].notes)
                   /\ UNCHANGED <<root, b_inst>>
              ELSE /\ b_inst' = b_inst \ {nodes[mr_node].triplet.fs_handle}
                   /\ root' = NULL
                   /\ nodes' = vfs_node_forget(nodes, mr_node)
                   /\ Goto(t, "um_mtab", loc[t])
                   /\ UNCHANGED b_type
    /\ namespace_rwlock' = write_unlock(namespace_rwlock, t)
    /\ UNCHANGED <<fds, files, mtab_list, mtab_size, mtab_list_lock, b_ents,
                   b_mounts, history_vars>>
    /\ b_data' = Scrub(b_data, b_type')

\* Unmounting below the root: the mount point has been looked up.
VfsUnmountLookupMp(t) ==
    /\ At(t, "um_lookup_mp")
    /\ \E refused \in BOOLEAN :
          LET mr_node == loc[t].node
              res == IF refused THEN LookupFail("EIO", b_type, b_ents)
                     ELSE vfs_lookup_internal(TripletAt(nodes, root), loc[t].path,
                                              {"L_MP"}, b_type, b_ents)
              got == vfs_node_get(nodes, res.lr)
              put == vfs_node_put(nodes, b_type, b_ents, mr_node)
          IN  IF res.rc # "EOK" \/ got.id = NULL
              THEN /\ namespace_rwlock' = write_unlock(namespace_rwlock, t)
                   /\ nodes' = put.nodes
                   /\ b_type' = put.types
                   /\ Return(t, "unmount", loc[t].answers + 1,
                             IF res.rc # "EOK" THEN res.rc ELSE "ENOMEM",
                             loc[t].notes)
              ELSE /\ nodes' = got.nodes
                   /\ Goto(t, "um_unmount", [loc[t] EXCEPT !.node2 = got.id,
                                                           !.lr2 = res.lr])
                   /\ UNCHANGED <<namespace_rwlock, b_type>>
    /\ UNCHANGED <<root, fds, files, mtab_list, mtab_size, mtab_list_lock, b_inst,
                   b_ents, b_mounts,
                   history_vars>>
    /\ b_data' = Scrub(b_data, b_type')

\* Giving back only the reference taken for the call.
\* A failed unmount that keeps the reference it took to the mount point.
UnmountFailedKeep(ns, types, ents, mp_node) == [nodes |-> ns, types |-> types]

\* VFS_OUT_UNMOUNT failed: the reference taken for the call is given back.
UnmountFailedPut(ns, types, ents, mp_node) ==
    vfs_node_put(ns, types, ents, mp_node)

UnmountPutMountPointOnce(ns, types, ents, mp_node) ==
    vfs_node_put(ns, types, ents, mp_node)

\* The two references to the mount point that a finished unmount gives back:
\* the one taken for the call and the one taken by the mount.
UnmountPutMountPoint(ns, types, ents, mp_node) ==
    LET once == vfs_node_put(ns, types, ents, mp_node)
    IN  vfs_node_put(once.nodes, once.types, ents, mp_node)

\* Unmounting below the root: the parent's answer to VFS_OUT_UNMOUNT.
VfsUnmountUnmount(t) ==
    /\ At(t, "um_unmount")
    /\ \E refused \in BOOLEAN :
          LET mr_node == loc[t].node
              mp_node == loc[t].node2
              mp == nodes[mp_node].triplet
              rc == IF refused THEN "EIO"
                    ELSE IF ~IsMountPoint(mp) THEN "EINVAL"
                    ELSE "EOK"
              put1 == UnmountFailedPut(nodes, b_type, b_ents, mp_node)
              put2 == vfs_node_put(put1.nodes, put1.types, b_ents, mr_node)
              both == UnmountPutMountPoint(nodes, b_type, b_ents, mp_node)
          IN  IF rc # "EOK"
              THEN /\ nodes' = put2.nodes
                   /\ b_type' = put2.types
                   /\ Return(t, "unmount", loc[t].answers + 1, rc, loc[t].notes)
                   /\ UNCHANGED <<b_inst, b_mounts>>
              ELSE /\ b_mounts' = { m \in b_mounts : m.mp # mp }
                   /\ b_inst' = b_inst \
                          { m.mr.fs_handle : m \in { x \in b_mounts : x.mp = mp } }
                   /\ nodes' = vfs_node_forget(both.nodes, mr_node)
                   /\ b_type' = both.types
                   /\ Goto(t, "um_mtab", loc[t])
    /\ namespace_rwlock' = write_unlock(namespace_rwlock, t)
    /\ UNCHANGED <<root, fds, files, mtab_list, mtab_size, mtab_list_lock, b_ents,
                   history_vars>>
    /\ b_data' = Scrub(b_data, b_type')

\* The mount is taken off the list of mounted file systems; assert(found).
VfsUnmountMtab(t) ==
    /\ At(t, "um_mtab")
    /\ mtab_list_lock = NULL
    /\ LET i == MtabFind(mtab_list, loc[t].path, 1)
       IN  IF i = 0
           THEN /\ Abort(t, "unmount", loc[t].answers, {"assert_found"})
                /\ UNCHANGED <<mtab_list, mtab_size>>
           ELSE /\ mtab_list' = SeqRemove(mtab_list, i)
                /\ mtab_size' = mtab_size - 1
                /\ Return(t, "unmount", loc[t].answers + 1, "EOK", loc[t].notes)
    /\ UNCHANGED <<root, nodes, fds, files, namespace_rwlock, mtab_list_lock,
                   backend_vars, history_vars>>

\* -------------------------------------------------------------- vfs_walk

WALK_ALL_FLAGS == {"WALK_MAY_CREATE", "WALK_MUST_CREATE", "WALK_REGULAR",
                   "WALK_DIRECTORY"}

walk_flags_all_valid(flags) == TRUE

walk_flags_valid(flags) ==
    IF flags \ WALK_ALL_FLAGS # {} THEN FALSE
    ELSE IF "WALK_MAY_CREATE" \in flags /\ "WALK_MUST_CREATE" \in flags THEN FALSE
    ELSE IF "WALK_REGULAR" \in flags /\ "WALK_DIRECTORY" \in flags THEN FALSE
    ELSE IF ("WALK_MAY_CREATE" \in flags \/ "WALK_MUST_CREATE" \in flags) /\
            "WALK_DIRECTORY" \notin flags /\ "WALK_REGULAR" \notin flags
    THEN FALSE
    ELSE TRUE

walk_lookup_flags(flags) ==
    (IF "WALK_MAY_CREATE" \in flags \/ "WALK_MUST_CREATE" \in flags
     THEN {"L_CREATE"} ELSE {}) \cup
    (IF "WALK_MUST_CREATE" \in flags THEN {"L_EXCLUSIVE"} ELSE {}) \cup
    (IF "WALK_REGULAR" \in flags THEN {"L_FILE"} ELSE {}) \cup
    (IF "WALK_DIRECTORY" \in flags THEN {"L_DIRECTORY"} ELSE {})

\* What the clients walk with (the parents, the flag words and the paths):
\* walks from the root, without flags.
WalksFromRoot(paths) == [parents |-> {-1}, words |-> { {} }, paths |-> paths]

\* vfs_fd_alloc(false): the lowest free slot gets a new record. [fd, fds, files]
vfs_fd_alloc(fd_tab, fs) ==
    IF FreeSlots(fd_tab) = {} \/ FreeFiles(fd_tab, fs) = {}
    THEN [fd |-> -1, fds |-> fd_tab, files |-> fs]
    ELSE LET fd == MinOf(FreeSlots(fd_tab))
             f == MinOf(FreeFiles(fd_tab, fs))
         IN  [fd |-> fd, fds |-> [fd_tab EXCEPT ![fd] = f],
              files |-> [fs EXCEPT ![f] = FreeFile]]

\* Taking a node of its own for every lookup result, while there is memory.
WalkNodeGetFresh(ns, lr) ==
    IF NodeIds \ Cached(ns) = {} THEN vfs_node_get(ns, lr)
    ELSE [id |-> MinOf(NodeIds \ Cached(ns)),
          nodes |-> [ns EXCEPT ![MinOf(NodeIds \ Cached(ns))] = NodeFor(lr)]]

\* vfs_walk() taking the node of the lookup result.
WalkNodeGet(ns, lr) == vfs_node_get(ns, lr)

\* The flags are checked, the path received, the parent found.
VfsWalkStart(t, in) ==
    /\ At(t, "idle")
    /\ \E parentfd \in in.parents, flags \in in.words, path \in in.paths :
          IF ~walk_flags_valid(flags)
          THEN /\ Return(t, "walk", 1, "EINVAL", flags \cup {"flags_invalid"})
               /\ UNCHANGED files
          ELSE IF parentfd # -1
          THEN LET got == vfs_file_get(fds, files, parentfd)
               IN  IF got.file = NULL
                   THEN /\ Return(t, "walk", 1, "EBADF", flags)
                        /\ UNCHANGED files
                   ELSE /\ files' = got.files
                        /\ Goto(t, "w_lock",
                                [Loc0 EXCEPT !.op = "walk", !.flags = flags,
                                             !.path = path, !.fd = parentfd,
                                             !.parent = got.file,
                                             !.node = got.files[got.file].node])
          ELSE /\ Goto(t, "w_lock",
                       [Loc0 EXCEPT !.op = "walk", !.flags = flags, !.path = path,
                                    !.node = root])
               /\ UNCHANGED files
    /\ UNCHANGED <<root, nodes, fds, namespace_rwlock, mtab_list, mtab_size,
                   mtab_list_lock, backend_vars, history_vars>>

VfsWalkLock(t) ==
    /\ At(t, "w_lock")
    /\ CanReadLock(namespace_rwlock)
    /\ Readers(namespace_rwlock) < MaxReaders
    /\ namespace_rwlock' = read_lock(namespace_rwlock, t)
    /\ \E base \in TripletRead(nodes, loc[t].node) :
          Goto(t, "w_lookup", [loc[t] EXCEPT !.base = base])
    /\ UNCHANGED <<root, nodes, fds, files, mtab_list, mtab_size, mtab_list_lock,
                   backend_vars,
                   history_vars>>

\* The lookup is answered: the node is taken and a file is opened on it.
VfsWalkLookup(t) ==
    /\ At(t, "w_lookup")
    /\ \E refused \in BOOLEAN :
          LET parent == loc[t].parent
              res == IF refused THEN LookupFail("EIO", b_type, b_ents)
                     ELSE vfs_lookup_internal(loc[t].base, loc[t].path,
                                              walk_lookup_flags(loc[t].flags),
                                              b_type, b_ents)
              files1 == IF parent # NULL THEN vfs_file_put(fds, files, parent)
                        ELSE files
              got == WalkNodeGet(nodes, res.lr)
              put == vfs_node_put(got.nodes, res.types, res.ents, got.id)
              alloc == vfs_fd_alloc(fds, files)
              perms == IF parent # NULL THEN files[parent].permissions
                       ELSE {"MODE_READ", "MODE_WRITE", "MODE_APPEND"}
              files2 == [alloc.files EXCEPT ![alloc.fds[alloc.fd]] =
                            [@ EXCEPT !.node = got.id, !.permissions = perms,
                                      !.open_read = FALSE, !.open_write = FALSE]]
          IN  IF res.rc # "EOK"
              THEN /\ namespace_rwlock' = read_unlock(namespace_rwlock, t)
                   /\ files' = files1
                   /\ Return(t, "walk", 1, res.rc, {})
                   /\ UNCHANGED <<nodes, fds, b_type, b_ents>>
              ELSE IF alloc.fd < 0
              THEN /\ nodes' = put.nodes
                   /\ b_type' = put.types
                   /\ b_ents' = res.ents
                   /\ files' = files1
                   /\ Return(t, "walk", 1, "EMFILE", {"no_fd"})
                   /\ UNCHANGED <<namespace_rwlock, fds>>
              ELSE /\ nodes' = got.nodes
                   /\ b_type' = res.types
                   /\ b_ents' = res.ents
                   /\ fds' = alloc.fds
                   /\ files' = IF parent # NULL
                               THEN vfs_file_put(alloc.fds, files2, parent)
                               ELSE files2
                   /\ namespace_rwlock' = read_unlock(namespace_rwlock, t)
                   /\ Return(t, "walk", 1, "EOK", {})
    /\ UNCHANGED <<root, mtab_list, mtab_size, mtab_list_lock, b_inst, b_mounts,
                   history_vars>>
    /\ b_data' = Scrub(b_data, b_type')

\* ------------------------------------------------------------- vfs_close

\* vfs_fd_free(fd): the slot is cleared and gives back its reference to the
\* node.  [rc, fds, files, nodes, types]
vfs_fd_free(fd_tab, fs, ns, types, ents, fd) ==
    IF fd \notin Fds \/ fd_tab[fd] = NULL
    THEN [rc |-> "EBADF", fds |-> fd_tab, files |-> fs, nodes |-> ns,
          types |-> types]
    ELSE LET f == fd_tab[fd]
             tab2 == [fd_tab EXCEPT ![fd] = NULL]
             put == IF fs[f].node # NULL
                    THEN vfs_node_put(ns, types, ents, fs[f].node)
                    ELSE [nodes |-> ns, types |-> types]
         IN  [rc |-> "EOK", fds |-> tab2,
              files |-> IF f \in FreeFiles(tab2, fs)
                        THEN [fs EXCEPT ![f] = FreeFile] ELSE fs,
              nodes |-> put.nodes, types |-> put.types]

VfsClose(t) ==
    /\ At(t, "idle")
    /\ \E fd \in Fds :
          LET r == vfs_fd_free(fds, files, nodes, b_type, b_ents, fd)
          IN  /\ fds' = r.fds
              /\ files' = r.files
              /\ nodes' = r.nodes
              /\ b_type' = r.types
              /\ granted' = [f \in FileIds |->
                                 IF r.files[f] = FreeFile THEN {} ELSE granted[f]]
              /\ Return(t, "close", 1, r.rc, {})
    /\ UNCHANGED <<root, namespace_rwlock, mtab_list, mtab_size, mtab_list_lock,
                   b_inst, b_ents, b_mounts, journal>>
    /\ b_data' = Scrub(b_data, b_type')

\* ------------------------------------------------ mounting and unmounting

\* The file systems that are mounted where every request is interleaved with
\* every other.
TwoFs == {1, 2}

MountNext(t, fss) ==
    \/ VfsMountStart(t, fss) \/ VfsMountLock(t) \/ VfsMountMounted(t)
    \/ VfsMountLookup(t) \/ VfsMountMount(t) \/ VfsMountMtab(t)

UnmountNext(t) ==
    \/ VfsUnmountStart(t) \/ VfsUnmountLock(t) \/ VfsUnmountLookup(t)
    \/ VfsUnmountUnmounted(t) \/ VfsUnmountLookupMp(t) \/ VfsUnmountUnmount(t)
    \/ VfsUnmountMtab(t)

WalkNext(t, in) == VfsWalkStart(t, in) \/ VfsWalkLock(t) \/ VfsWalkLookup(t)

NextMounts ==
    \E t \in Tasks :
        \/ MountNext(t, TwoFs) \/ UnmountNext(t)
        \/ WalkNext(t, WalksFromRoot({ <<"/">>, <<"/", "a">> }))
        \/ VfsClose(t)
        \/ NextRequest(t)

SpecMounts == Init /\ [][NextMounts]_vars

\* ------------------------------------------------------------ vfs_rename

RenamePaths == { <<"/", "a">>, <<"/", "b">>, <<"/", "a", "/", "a">>,
                 <<"/", "a", "/", "b">> }
RenameBases == {-1}

\* What a plain lookup of path under base finds in the name space (types,
\* ents): a triplet, or NoTrip when the lookup fails.
NamesIn(types, ents, base, path) ==
    LET res == vfs_lookup_internal(base, path, {}, types, ents)
    IN  IF res.rc = "EOK" THEN res.lr.triplet ELSE NoTrip

\* vfs_rename_internal(): "Do not allow one path to be a prefix of the other."
RenameRejects(old, new, shared) ==
    CharAt(old, shared) = NUL \/ CharAt(new, shared) = NUL

\* vfs_rename() up to vfs_rename_internal()'s taking of the name space lock.
VfsRenameStart(t) ==
    /\ At(t, "idle")
    /\ \E basefd \in RenameBases, old \in RenamePaths, new \in RenamePaths,
          in \in {"ok", "no_data"} :
          LET got == vfs_file_get(fds, files, basefd)
              base_node == IF basefd # -1 THEN got.files[got.file].node ELSE root
              shared == shared_path(old, new)
          IN  IF in = "no_data"
              THEN /\ Return(t, "rename", 1, "EINVAL", {})
                   /\ UNCHANGED files
              ELSE IF basefd # -1 /\ got.file = NULL
              THEN /\ Return(t, "rename", 1, "EBADF", {})
                   /\ UNCHANGED files
              ELSE IF base_node = NULL
              THEN /\ Abort(t, "rename", 0, {"assert_base"})
                   /\ UNCHANGED files
              ELSE IF RenameRejects(old, new, shared)
              THEN /\ Return(t, "rename", 1, "EINVAL", {})
                   /\ UNCHANGED files
              ELSE /\ files' = IF basefd # -1 THEN got.files ELSE files
                   /\ Goto(t, "rn_lock",
                           [Loc0 EXCEPT !.op = "rename", !.path = old,
                                        !.path2 = new, !.shared = shared,
                                        !.fd = basefd,
                                        !.parent = IF basefd # -1 THEN got.file
                                                   ELSE NULL,
                                        !.node = base_node])
    /\ UNCHANGED <<root, nodes, fds, namespace_rwlock, mtab_list, mtab_size,
                   mtab_list_lock, backend_vars, history_vars>>

\* vfs_rename() after vfs_rename_internal() returned rc.
RenameReturn(t, rc, notes) ==
    /\ Return(t, "rename", 1, rc, notes)
    /\ files' = IF loc[t].parent # NULL
                THEN vfs_file_put(fds, files, loc[t].parent) ELSE files
    /\ namespace_rwlock' = write_unlock(namespace_rwlock, t)

\* The paths relative to the resolved base.
OldRel(t) == StrSuffix(loc[t].path, loc[t].shared)
NewRel(t) == StrSuffix(loc[t].path2, loc[t].shared)

VfsRenameLock(t) ==
    /\ At(t, "rn_lock")
    /\ CanWriteLock(namespace_rwlock)
    /\ namespace_rwlock' = write_lock(namespace_rwlock, t)
    /\ \E base \in TripletRead(nodes, loc[t].node) :
           Goto(t, IF loc[t].shared # 0 THEN "rn_base" ELSE "rn_unlink_new",
                [loc[t] EXCEPT !.base = base, !.rbase = base,
                               !.pre_a = NamesIn(b_type, b_ents, base,
                                                  loc[t].path),
                               !.pre_b = NamesIn(b_type, b_ents, base,
                                                  loc[t].path2)])
    /\ UNCHANGED <<root, nodes, fds, files, mtab_list, mtab_size, mtab_list_lock,
                   backend_vars,
                   history_vars>>

\* The shared portion of the paths has been resolved.
VfsRenameBase(t) ==
    /\ At(t, "rn_base")
    /\ \E refused \in BOOLEAN :
          LET res == IF refused THEN LookupFail("EIO", b_type, b_ents)
                     ELSE vfs_lookup_internal(loc[t].base,
                              StrPrefix(loc[t].path, loc[t].shared),
                              {"L_DIRECTORY"}, b_type, b_ents)
          IN  IF res.rc # "EOK"
              THEN RenameReturn(t, res.rc, {})
              ELSE /\ Goto(t, "rn_unlink_new",
                           [loc[t] EXCEPT !.rbase = res.lr.triplet])
                   /\ UNCHANGED <<files, namespace_rwlock>>
    /\ UNCHANGED <<root, nodes, fds, mtab_list, mtab_size, mtab_list_lock,
                   backend_vars, history_vars>>

\* What the backend answers to a VFS_OUT_LINK of child at path under base.
BackendLink(refused, base, path, child) ==
    IF refused THEN [rc |-> "EIO", ents |-> b_ents]
    ELSE vfs_link_internal(base, path, child, b_type, b_ents)

\* new has been looked up with L_UNLINK | L_DISABLE_MOUNTS.
VfsRenameUnlinkNew(t) ==
    /\ At(t, "rn_unlink_new")
    /\ \E refused \in BOOLEAN :
          LET res == IF refused THEN LookupFail("EIO", b_type, b_ents)
                     ELSE vfs_lookup_internal(loc[t].rbase, NewRel(t),
                              {"L_UNLINK", "L_DISABLE_MOUNTS"}, b_type, b_ents)
          IN  IF res.rc # "EOK" /\ res.rc # "ENOENT"
              THEN /\ RenameReturn(t, res.rc, {})
                   /\ UNCHANGED b_ents
              ELSE /\ b_ents' = res.ents
                   /\ Goto(t, "rn_unlink_old",
                           [loc[t] EXCEPT !.flag = (res.rc = "EOK"),
                                          !.lr2 = res.lr])
                   /\ UNCHANGED <<files, namespace_rwlock>>
    /\ UNCHANGED <<root, nodes, fds, mtab_list, mtab_size, mtab_list_lock, b_inst,
                   b_type, b_mounts,
                   history_vars>>
    /\ b_data' = Scrub(b_data, b_type')

\* old has been looked up with L_UNLINK | L_DISABLE_MOUNTS.
VfsRenameUnlinkOld(t) ==
    /\ At(t, "rn_unlink_old")
    /\ \E refused \in BOOLEAN :
          LET res == IF refused THEN LookupFail("EIO", b_type, b_ents)
                     ELSE vfs_lookup_internal(loc[t].rbase, OldRel(t),
                              {"L_UNLINK", "L_DISABLE_MOUNTS"}, b_type, b_ents)
          IN  IF res.rc # "EOK"
              THEN IF loc[t].flag
                   THEN /\ Goto(t, "rn_relink_new", [loc[t] EXCEPT !.rc = res.rc])
                        /\ UNCHANGED <<files, namespace_rwlock, b_ents>>
                   ELSE /\ RenameReturn(t, res.rc, {})
                        /\ UNCHANGED b_ents
              ELSE /\ b_ents' = res.ents
                   /\ Goto(t, "rn_link", [loc[t] EXCEPT !.lr = res.lr])
                   /\ UNCHANGED <<files, namespace_rwlock>>
    /\ UNCHANGED <<root, nodes, fds, mtab_list, mtab_size, mtab_list_lock, b_inst,
                   b_type, b_mounts,
                   history_vars>>
    /\ b_data' = Scrub(b_data, b_type')

\* The displaced node of new, once nothing refers to it, is destroyed.
RenameDropDisplaced(ns, types, ents, new_lr_orig) ==
    LET got == vfs_node_get(ns, new_lr_orig)
    IN  vfs_node_put(got.nodes, types, ents, got.id)

\* Linking the displaced node, not old's, at new.
LinkedAtNewDisplaced(t) == loc[t].lr2.triplet

\* What is linked at new: old's node.
LinkedAtNew(t) == loc[t].lr.triplet

\* The link of old's node at new has been answered.
VfsRenameLink(t) ==
    /\ At(t, "rn_link")
    /\ \E refused \in BOOLEAN :
          LET res == BackendLink(refused, loc[t].rbase, NewRel(t),
                                 LinkedAtNew(t))
              drop == RenameDropDisplaced(nodes, b_type, res.ents, loc[t].lr2)
          IN  IF res.rc # "EOK"
              THEN /\ Goto(t, "rn_relink_old", [loc[t] EXCEPT !.rc = res.rc])
                   /\ UNCHANGED <<files, namespace_rwlock, nodes, b_type, b_ents>>
              ELSE /\ b_ents' = res.ents
                   /\ IF loc[t].flag
                      THEN nodes' = drop.nodes /\ b_type' = drop.types
                      ELSE UNCHANGED <<nodes, b_type>>
                   /\ RenameReturn(t, "EOK",
                          IF loc[t].flag THEN {"displaced"} ELSE {})
    /\ UNCHANGED <<root, fds, mtab_list, mtab_size, mtab_list_lock, b_inst,
                   b_mounts, history_vars>>
    /\ b_data' = Scrub(b_data, b_type')

\* Linking the displaced node, not old's, back at old.
RelinkedAtOldDisplaced(t) == loc[t].lr2.triplet

\* What is linked back at old: old's node.
RelinkedAtOld(t) == loc[t].lr.triplet

\* Undoing: old's node has been linked back at old; the answer is not looked at.
VfsRenameRelinkOld(t) ==
    /\ At(t, "rn_relink_old")
    /\ \E refused \in BOOLEAN :
          LET res == BackendLink(refused, loc[t].rbase, OldRel(t),
                                 RelinkedAtOld(t))
              notes == IF res.rc # "EOK" THEN {"undo_failed"}
                       ELSE {"undone_old"}
          IN  /\ b_ents' = res.ents
              /\ IF loc[t].flag
                 THEN /\ Goto(t, "rn_relink_new",
                              [loc[t] EXCEPT !.notes = @ \cup notes])
                      /\ UNCHANGED <<files, namespace_rwlock>>
                 ELSE RenameReturn(t, loc[t].rc, loc[t].notes \cup notes)
    /\ UNCHANGED <<root, nodes, fds, mtab_list, mtab_size, mtab_list_lock, b_inst,
                   b_type, b_mounts,
                   history_vars>>
    /\ b_data' = Scrub(b_data, b_type')

\* Linking old's node, not the displaced one, back at new.
RelinkedAtNewOld(t) == loc[t].lr.triplet

\* What is linked back at new: the displaced node.
RelinkedAtNew(t) == loc[t].lr2.triplet

\* Undoing: the displaced node has been linked back at new; the answer is not
\* looked at.
VfsRenameRelinkNew(t) ==
    /\ At(t, "rn_relink_new")
    /\ \E refused \in BOOLEAN :
          LET res == BackendLink(refused, loc[t].rbase, NewRel(t),
                                 RelinkedAtNew(t))
              notes == IF res.rc # "EOK" THEN {"undo_failed"}
                       ELSE {"undone_new"}
          IN  /\ b_ents' = res.ents
              /\ RenameReturn(t, loc[t].rc, loc[t].notes \cup notes)
    /\ UNCHANGED <<root, nodes, fds, mtab_list, mtab_size, mtab_list_lock, b_inst,
                   b_type, b_mounts,
                   history_vars>>
    /\ b_data' = Scrub(b_data, b_type')

RenameNext(t) ==
    \/ VfsRenameStart(t) \/ VfsRenameLock(t) \/ VfsRenameBase(t)
    \/ VfsRenameUnlinkNew(t) \/ VfsRenameUnlinkOld(t) \/ VfsRenameLink(t)
    \/ VfsRenameRelinkOld(t) \/ VfsRenameRelinkNew(t)

\* ------------------------------------------------------- the name space

\* The server with file system 1 mounted as the root and file system 2
\* mounted on /a, no request being served.
InitMounted ==
    /\ b_data = Formatted.data
    /\ journal = <<>>
    /\ granted = [f \in FileIds |-> {}]
    /\ root = HomeOf(Trip(1, 0))
    /\ nodes = [n \in NodeIds |->
                   IF n = HomeOf(Trip(1, 0))
                   THEN NodeFor(LookupOk(Trip(1, 0), Formatted.types, Formatted.ents).lr)
                   ELSE IF n = HomeOf(Trip(1, 1))
                   THEN NodeFor(LookupOk(Trip(1, 1), Formatted.types, Formatted.ents).lr)
                   ELSE IF n = HomeOf(Trip(2, 0))
                   THEN NodeFor(LookupOk(Trip(2, 0), Formatted.types, Formatted.ents).lr)
                   ELSE FreeNode]
    /\ fds = [fd \in Fds |-> NULL]
    /\ files = [f \in FileIds |-> FreeFile]
    /\ namespace_rwlock = NoLock
    /\ mtab_list = << MtabEnt(<<"/">>, 1), MtabEnt(<<"/", "a">>, 2) >>
    /\ mtab_size = 2
    /\ mtab_list_lock = NULL
    /\ b_inst = {1, 2}
    /\ b_type = Formatted.types
    /\ b_ents = Formatted.ents
    /\ b_mounts = {[mp |-> Trip(1, 1), mr |-> Trip(2, 0)]}
    /\ pc = [t \in Tasks |-> "idle"]
    /\ loc = [t \in Tasks |-> Loc0]

\* One client renames while the others open and close files.
Renamers == {1}

NextNames ==
    \/ \E t \in Renamers : RenameNext(t) \/ NextRequest(t)
    \/ \E t \in Tasks \ Renamers :
          \/ WalkNext(t, WalksFromRoot({ <<"/", "b">>, <<"/", "a", "/", "b">> }))
          \/ VfsClose(t)
          \/ NextRequest(t)

SpecNames == InitMounted /\ [][NextNames]_vars

\* ------------------------------------------------------------- vfs_open2

OpenFlagWords == { {}, {"MODE_READ"}, {"MODE_READ", "MODE_WRITE"} }

\* fs_handle_to_info(fs_handle): what the file system registered with.
fs_handle_to_info(fs) ==
    [concurrent_read_write |-> fs = 2, write_retains_size |-> fs = 2]

\* Asking for no bit at all is never denied.
OpenNeverDenied(flags, permissions) == FALSE

\* (flags & ~file->permissions) != 0: a bit is asked for that the descriptor
\* does not permit.
OpenDenied(flags, permissions) == flags \ permissions # {}

\* The mode bits of a file, as a flag word.
ModeBits(file) ==
    (IF file.open_read THEN {"open_read"} ELSE {}) \cup
    (IF file.open_write THEN {"open_write"} ELSE {}) \cup
    (IF file.append THEN {"append"} ELSE {})

\* vfs_open2() returns: the fibril stays at "ret" with the descriptor and the
\* flag word it was called with, and with the mode bits the file had then.
OpenReturn(t, l, rc) ==
    /\ pc' = [pc EXCEPT ![t] = "ret"]
    /\ loc' = [loc EXCEPT ![t] = [l EXCEPT !.answers = 1, !.rc = rc]]

\* Letting directories be opened for writing.
OpenDirectoryAnyhow(type, open_write) == FALSE

\* A directory is asked to be opened for writing.
OpenWritesDirectory(type, open_write) == type = "dir" /\ open_write

\* vfs_open2() up to the request to the backend to open the node.
VfsOpenStart(t, words) ==
    /\ At(t, "idle")
    /\ \E fd \in Fds, flags \in words :
          LET got == vfs_file_get(fds, files, fd)
              f == got.file
              open_read == "MODE_READ" \in flags
              open_write == flags \cap {"MODE_WRITE", "MODE_APPEND"} # {}
              set == [got.files EXCEPT ![f].open_read = open_read,
                                       ![f].open_write = open_write,
                                       ![f].append = "MODE_APPEND" \in flags]
              reset == [set EXCEPT ![f].open_read = FALSE,
                                   ![f].open_write = FALSE]
              l == [Loc0 EXCEPT !.op = "open", !.fd = fd, !.flags = flags,
                                !.file = f,
                                !.notes = IF f = NULL THEN {}
                                          ELSE ModeBits(files[f])]
          IN  IF flags = {}
              THEN /\ OpenReturn(t, [l EXCEPT !.file = NULL, !.notes = {}],
                                 "EINVAL")
                   /\ UNCHANGED files
              ELSE IF f = NULL
              THEN /\ OpenReturn(t, l, "EBADF")
                   /\ UNCHANGED files
              ELSE /\ files[f].refcnt < MaxRefs
                   /\ IF OpenDenied(flags, files[f].permissions)
                      THEN /\ files' = vfs_file_put(fds, got.files, f)
                           /\ OpenReturn(t, l, "EPERM")
                      ELSE IF ~open_read /\ ~open_write
                      THEN /\ files' = vfs_file_put(fds, set, f)
                           /\ OpenReturn(t, l, "EINVAL")
                      ELSE IF OpenWritesDirectory(nodes[files[f].node].type,
                                                  open_write)
                      THEN /\ files' = vfs_file_put(fds, reset, f)
                           /\ OpenReturn(t, l, "EINVAL")
                      ELSE /\ files' = set
                           /\ Goto(t, "op_remote", l)
    /\ UNCHANGED <<root, nodes, fds, namespace_rwlock, mtab_list, mtab_size,
                   mtab_list_lock, backend_vars, history_vars>>

\* The backend has answered the request to open the node.
VfsOpenRemote(t, keep) ==
    /\ At(t, "op_remote")
    /\ \E refused \in BOOLEAN :
          LET f == loc[t].file
              reset == [files EXCEPT ![f].open_read = FALSE,
                                     ![f].open_write = FALSE]
          IN  IF refused
              THEN /\ files' = vfs_file_put(fds, reset, f)
                   /\ OpenReturn(t, loc[t], "EIO")
                   /\ UNCHANGED granted
              ELSE /\ files' = vfs_file_put(fds, files, f)
                   /\ OpenReturn(t, loc[t], "EOK")
                   /\ granted' = IF keep > 0
                                 THEN [granted EXCEPT ![f] = @ \cup loc[t].flags]
                                 ELSE granted
    /\ UNCHANGED <<root, nodes, fds, namespace_rwlock, mtab_list, mtab_size,
                   mtab_list_lock, backend_vars, journal>>

OpenNext(t, words, keep) == VfsOpenStart(t, words) \/ VfsOpenRemote(t, keep)

\* -------------------------------------------------------------- vfs_rdwr

\* The position up to which files are read and written.
MaxPos == 1

\* vfs_rdwr(): the file of the descriptor is taken.
VfsRdwrStart(t) ==
    /\ At(t, "idle")
    /\ \E fd \in Fds, read \in BOOLEAN :
          LET got == vfs_file_get(fds, files, fd)
              op == IF read THEN "read" ELSE "write"
          IN  IF got.file = NULL
              THEN /\ Return(t, op, 1, "ENOENT", {})
                   /\ UNCHANGED files
              ELSE /\ files[got.file].refcnt < MaxRefs
                   /\ files' = got.files
                   /\ Goto(t, "rw_mutex",
                           [Loc0 EXCEPT !.op = op, !.fd = fd, !.file = got.file,
                                        !.flag = read])
    /\ UNCHANGED <<root, nodes, fds, namespace_rwlock, mtab_list, mtab_size,
                   mtab_list_lock, backend_vars, history_vars>>

\* What a request refused for the open bits gives back before it returns.
RdwrRefusedPut(fd_tab, fs, f) == fs

\* The file is locked and its open bits are checked.
VfsRdwrMutex(t) ==
    /\ At(t, "rw_mutex")
    /\ files[loc[t].file].lock = NULL
    /\ LET f == loc[t].file
           read == loc[t].flag
       IN  IF (read /\ ~files[f].open_read) \/ (~read /\ ~files[f].open_write)
           THEN /\ files' = RdwrRefusedPut(fds, files, f)
                /\ Return(t, loc[t].op, 1, "EINVAL", {"not_open"})
           ELSE /\ files' = [files EXCEPT ![f].lock = t]
                /\ Goto(t, "rw_contents", loc[t])
    /\ UNCHANGED <<root, nodes, fds, namespace_rwlock, mtab_list, mtab_size,
                   mtab_list_lock, backend_vars, history_vars>>

\* Every request takes the contents lock for reading.
SharesAlways(t) == TRUE

\* The contents lock of the node is taken for reading or for writing.
SharesContents(t) ==
    LET fs_info == fs_handle_to_info(nodes[files[loc[t].file].node]
                                         .triplet.fs_handle)
    IN  loc[t].flag \/
        (fs_info.concurrent_read_write /\ fs_info.write_retains_size)

\* The contents of the node are locked; a directory asks for the name space
\* lock next.
VfsRdwrContents(t) ==
    /\ At(t, "rw_contents")
    /\ LET n == files[loc[t].file].node
       IN  /\ nodes[n].wr = NULL
           /\ SharesContents(t) \/ nodes[n].rd = {}
           /\ nodes' = IF SharesContents(t)
                       THEN [nodes EXCEPT ![n].rd = @ \cup {t}]
                       ELSE [nodes EXCEPT ![n].wr = t]
           /\ IF nodes[n].type = "dir"
              THEN IF loc[t].flag
                   THEN Goto(t, "rw_nslock", loc[t])
                   ELSE Abort(t, loc[t].op, 0, {"assert_read"})
              ELSE Goto(t, "rw_io", loc[t])
    /\ UNCHANGED <<root, fds, files, namespace_rwlock, mtab_list, mtab_size,
                   mtab_list_lock, backend_vars, history_vars>>

\* readdir: the name space is locked for reading.
VfsRdwrNamespace(t) ==
    /\ At(t, "rw_nslock")
    /\ CanReadLock(namespace_rwlock)
    /\ Readers(namespace_rwlock) < MaxReaders
    /\ namespace_rwlock' = read_lock(namespace_rwlock, t)
    /\ Goto(t, "rw_io", loc[t])
    /\ UNCHANGED <<root, nodes, fds, files, mtab_list, mtab_size, mtab_list_lock,
                   backend_vars,
                   history_vars>>

\* vfs_node_get_size(node): the size of the node as the cache has it.
vfs_node_get_size(n) == nodes[n].size

\* A request on an open file that was answered: what was asked, the position
\* of the file when the request was served, and the reply.
Answered(op, f, rc) ==
    [op |-> op, file |-> f, rc |-> rc, pos |-> 0, append |-> FALSE,
     whence |-> "none", off |-> 0, payload |-> <<>>, count |-> 0, reply |-> 0,
     data |-> <<>>]

\* The journal with one more entry, of which the last keep are kept.
Logged(e, keep) ==
    LET j == Append(journal, e)
    IN  IF Len(j) > keep THEN SubSeq(j, Len(j) - keep + 1, Len(j)) ELSE j

\* The backend stores what it is sent: the bytes of a file after buf was
\* written at offset pos, a hole before pos being filled.
DataWrite(old, pos, buf) ==
    LET len == IF pos + Len(buf) > Len(old) THEN pos + Len(buf) ELSE Len(old)
    IN  [i \in 1..len |->
            IF i > pos /\ i <= pos + Len(buf) THEN buf[i - pos]
            ELSE IF i <= Len(old) THEN old[i]
            ELSE Hole]

\* At most count bytes of the file from offset pos on.
DataRead(old, pos, count) ==
    SubSeq(old, pos + 1, IF pos + count < Len(old) THEN pos + count ELSE Len(old))

\* A position that the bytes transferred do not move.
RdwrStays(pos, bytes) == pos

\* file->pos += bytes
RdwrAdvance(pos, bytes) == pos + bytes

RdwrPosAtEnd(f, read) == vfs_node_get_size(files[f].node)

\* The position of the file, whatever its mode.
RdwrPosKept(f, read) == files[f].pos

\* The position the request is forwarded with: the end of the file for a
\* write in append mode.
RdwrPos(f, read) ==
    IF ~read /\ files[f].append THEN vfs_node_get_size(files[f].node)
    ELSE files[f].pos

\* The backend has answered the read or the write: bytes were transferred,
\* or none (rc).  The client's buffer is buf: the bytes to write, or room for
\* as many bytes to read; no file grows beyond room bytes.
VfsRdwrIo(t, bufs, room, keep) ==
    /\ At(t, "rw_io")
    /\ \E refused \in BOOLEAN, buf \in bufs :
          LET f == loc[t].file
              n == files[f].node
              tr == nodes[n].triplet
              read == loc[t].flag
              pos == RdwrPos(f, read)
              rc == IF refused THEN "EIO" ELSE "EOK"
              old == b_data[tr.fs_handle][tr.index]
              got == IF refused \/ ~read THEN <<>>
                     ELSE DataRead(old, pos, Len(buf))
              done == IF refused THEN 0
                      ELSE IF read THEN Len(got) ELSE Len(buf)
              stored == IF refused \/ read \/ done = 0 THEN old
                        ELSE DataWrite(old, pos, buf)
              unlocked == IF SharesContents(t)
                          THEN [nodes EXCEPT ![n].rd = @ \ {t}]
                          ELSE [nodes EXCEPT ![n].wr = NULL,
                                             ![n].size = IF rc = "EOK"
                                                         THEN Len(stored)
                                                         ELSE @]
              moved == [files EXCEPT ![f].pos = IF rc = "EOK"
                                                THEN RdwrAdvance(pos, done)
                                                ELSE pos,
                                     ![f].lock = NULL]
          IN  /\ ~read => pos + done <= room
              /\ namespace_rwlock' = IF nodes[n].type = "dir"
                                     THEN read_unlock(namespace_rwlock, t)
                                     ELSE namespace_rwlock
              /\ nodes' = unlocked
              /\ files' = vfs_file_put(fds, moved, f)
              /\ b_data' = [b_data EXCEPT ![tr.fs_handle][tr.index] = stored]
              /\ journal' = Logged([Answered(loc[t].op, f, rc) EXCEPT
                                       !.pos = IF read THEN 0 ELSE files[f].pos,
                                       !.append = ~read /\ files[f].append,
                                       !.payload = IF read THEN <<>> ELSE buf,
                                       !.count = IF read THEN Len(buf) ELSE 0,
                                       !.data = got], keep)
              /\ Return(t, loc[t].op, 1, rc, {})
    /\ UNCHANGED <<root, fds, mtab_list, mtab_size, mtab_list_lock, b_inst,
                   b_type, b_ents, b_mounts, granted>>

RdwrNext(t, bufs, room, keep) ==
    \/ VfsRdwrStart(t) \/ VfsRdwrMutex(t) \/ VfsRdwrContents(t)
    \/ VfsRdwrNamespace(t) \/ VfsRdwrIo(t, bufs, room, keep)

\* Reading and writing a plain file: its contents need no name space lock.
RdwrFileNext(t, bufs, room, keep) ==
    \/ VfsRdwrStart(t) \/ VfsRdwrMutex(t) \/ VfsRdwrContents(t)
    \/ VfsRdwrIo(t, bufs, room, keep)

\* The buffers of the clients that read and write one byte, or none.
OneByte == { <<>>, <<"x">> }

\* One client walks to the root directory and to the file /b and opens what
\* it walked to; every client reads and writes; the files are kept open.
Openers == {1}

NextFiles ==
    \/ \E t \in Openers :
          \/ WalkNext(t, WalksFromRoot({ <<"/">>, <<"/", "b">> }))
          \/ OpenNext(t, OpenFlagWords, 0)
    \/ \E t \in Tasks : RdwrNext(t, OneByte, MaxPos, 0) \/ NextRequest(t)

SpecFiles == InitMounted /\ [][NextFiles]_vars

\* The fibril is inside vfs_rename_internal(), holding the name space lock.
Renaming(t) ==
    pc[t] \in {"rn_base", "rn_unlink_new", "rn_unlink_old", "rn_link",
               "rn_relink_old", "rn_relink_new"}

\* The rename served by t replies rc in this step.
RenameReplies(t) == Renaming(t) /\ pc'[t] = "ret"

\* What old and new name once the step is taken.
OldAfter(t) == NamesIn(b_type', b_ents', loc[t].base, loc[t].path)
NewAfter(t) == NamesIn(b_type', b_ents', loc[t].base, loc[t].path2)

\* The paths of the rename are one a prefix of the other.
PrefixPair(old, new) == IsPathPrefix(old, new) \/ IsPathPrefix(new, old)

\* C2. Rename success post-condition: when rename(a, b) replies EOK, a lookup
\* of a fails and a lookup of b yields the triplet a named when the rename
\* took the name space lock, whether or not b named anything then.
RenameSuccessPost ==
    [][\A t \in Tasks :
          RenameReplies(t) /\ loc'[t].rc = "EOK" =>
              /\ OldAfter(t) = NoTrip
              /\ NewAfter(t) = loc[t].pre_a
              /\ loc[t].pre_a # NoTrip]_vars

\* A rename has replied EOK that displaced what new named.
RenameSuccessSeen ==
    \E t \in Tasks :
        /\ pc[t] = "ret" /\ loc[t].op = "rename" /\ loc[t].rc = "EOK"
        /\ "displaced" \in loc[t].notes

PrefixRenameRejected ==
    \A t \in Tasks :
        loc[t].op = "rename" /\ pc[t] \notin {"ret", "idle", "abort"} =>
            ~PrefixPair(loc[t].path, loc[t].path2)

\* ------------------------------------------------------------ unmounting

\* The slots that refer to a node of file system fs.
DescriptorsOn(fs) ==
    { fd \in Fds : /\ fds[fd] # NULL
                   /\ files[fds[fd]].node # NULL
                   /\ nodes[files[fds[fd]].node].triplet.fs_handle = fs }

\* The mounted root the unmount served by t is about to be told of.
UnmountTarget(t) == NamesIn(b_type, b_ents, loc[t].base, loc[t].path)

\* Every slot refers to a cached node of a mounted file system.
DescriptorsOnMounted ==
    \A fd \in Fds :
        fds[fd] # NULL =>
            /\ files[fds[fd]].node \in Cached(nodes)
            /\ nodes[files[fds[fd]].node].triplet.fs_handle \in b_inst

\* The unmount served by t, its path received, is past its lookup while a
\* slot refers to a node of the file system mounted at the path.
UnmountInUse(t) ==
    /\ pc[t] = "um_lookup" /\ pc'[t] # "um_lookup"
    /\ "no_path" \notin loc[t].notes
    /\ UnmountTarget(t) # NoTrip
    /\ DescriptorsOn(UnmountTarget(t).fs_handle) # {}

\* The step answers the request, for the first time, and leaves the root, the
\* cached nodes with their reference counts, the slots, the mounts and the
\* list of mounted file systems as they were.
UnmountLeftIntact(t) ==
    /\ pc'[t] = "ret"
    /\ loc'[t].answers = 1
    /\ UNCHANGED <<root, nodes, fds, files, mtab_list, mtab_size, b_inst,
                   b_mounts>>

ExactlyOnceReply ==
    \A t \in Tasks : pc[t] = "ret" => loc[t].answers = 1

\* The locks of the server that fibril t holds: <<lock, which>>.
LocksHeld(t) ==
    (IF namespace_rwlock.writer = t \/ namespace_rwlock.readers[t] > 0
     THEN {<<"namespace_rwlock", 0>>} ELSE {}) \cup
    (IF mtab_list_lock = t THEN {<<"mtab_list_lock", 0>>} ELSE {}) \cup
    { <<"file", f>> : f \in { g \in FileIds : files[g].lock = t } } \cup
    { <<"contents", n>> :
        n \in { m \in NodeIds : t \in nodes[m].rd \/ nodes[m].wr = t } }

\* C6. No lock leak: a fibril whose handler has returned holds no lock.
NoLockLeak ==
    \A t \in Tasks : pc[t] \in {"ret", "idle"} => LocksHeld(t) = {}

\* ------------------------------------------------------- the node cache

\* No two nodes of the cache have the same triplet.
NodeCacheUnique ==
    \A n1, n2 \in Cached(nodes) :
        nodes[n1].triplet = nodes[n2].triplet => n1 = n2

\* The slot a walk has just filled.
NewSlots == { fd \in Fds : fds[fd] = NULL /\ fds'[fd] # NULL }

InFlightRefs ==
    { <<t, "mp_node", loc[t].node>> : t \in { u \in Tasks : pc[u] = "mi_mount" } }
    \cup
    { <<t, "mr_node", loc[t].node>> :
        t \in { u \in Tasks :
                  pc[u] \in {"um_unmounted", "um_lookup_mp", "um_unmount"} } }
    \cup
    { <<t, "mp_node", loc[t].node2>> :
        t \in { u \in Tasks : pc[u] = "um_unmount" } }

InFlight(n) == Cardinality({ r \in InFlightRefs : r[3] = n })

SlotsOn(n) ==
    Cardinality({ fd \in Fds : fds[fd] # NULL /\ files[fds[fd]].node = n })

IsMountedRoot(n) == n = root \/ \E m \in b_mounts : m.mr = nodes[n].triplet

MountsOn(n) == Cardinality({ m \in b_mounts : m.mp = nodes[n].triplet })

FileHolders(f) ==
    { t \in Tasks :
        \/ /\ pc[t] \in {"op_remote", "rw_mutex", "rw_contents", "rw_nslock",
                         "rw_io"}
           /\ loc[t].file = f
        \/ /\ pc[t] \in {"w_lock", "w_lookup", "rn_lock"} \/ Renaming(t)
           /\ loc[t].parent = f }

\* C7. No reference leak: the references to a file record that were taken
\* and not given back are those of the handlers that have not returned.
NoReferenceLeak ==
    \A f \in FileIds : files[f].refcnt = Cardinality(FileHolders(f))

\* ----------------------------------------------------------- lock order

\* The fibril waits for the name space lock.
WantsNamespace(t) ==
    pc[t] \in {"mi_lock", "um_lock", "w_lock", "rn_lock", "rw_nslock"}

\* C8. Lock order: no fibril waits for the name space lock while it holds
\* the lock of a file or the contents lock of a node.
LockOrder ==
    \A t \in Tasks :
        WantsNamespace(t) => LocksHeld(t) \subseteq {<<"namespace_rwlock", 0>>}

\* ---------------------------------------------------- mounts upon mounts

\* Every file system there is is mounted and unmounted, on / and on /a.
NextStack ==
    \E t \in Tasks :
        MountNext(t, FsInsts) \/ UnmountNext(t) \/ NextRequest(t)

SpecStack == InitMounted /\ [][NextStack]_vars

\* C11. Mount uniqueness: no two entries of the list of mounted file systems
\* have the same mount point path, and no triplet is the mount point of two
\* mounts.
MountUniqueness ==
    /\ \A i, j \in 1..Len(mtab_list) :
           mtab_list[i].mp = mtab_list[j].mp => i = j
    /\ \A m1, m2 \in b_mounts : m1.mp = m2.mp => m1 = m2

\* -------------------------------------------------------------- vfs_seek

\* off64_t and aoff64_t are OffBits bits wide.
OffBits == 3
OffModulus == 2 ^ OffBits
OFF64_MAX == 2 ^ (OffBits - 1) - 1
OFF64_MIN == -(2 ^ (OffBits - 1))
Offsets == OFF64_MIN..OFF64_MAX

\* SEEK_DATA stands for every whence that vfs_seek() does not know.
Whences == {"SEEK_SET", "SEEK_CUR", "SEEK_END", "SEEK_DATA"}

\* (aoff64_t) v, and the sum of two aoff64_t.
Unsigned(v) == v % OffModulus

\* -off, on off64_t: the negation of the least offset is the least offset,
\* as the two's complement negation of every build makes it.
Negated(off) == IF off = OFF64_MIN THEN OFF64_MIN ELSE -off

SeekNeverOverflows(base, off) == FALSE

SeekTargetAbsolute(base, off) == Unsigned(off)

\* The two checks of SEEK_CUR and of SEEK_END on base + off.
SeekOverflows(base, off) ==
    \/ off >= 0 /\ Unsigned(base + Unsigned(off)) < base
    \/ off < 0 /\ base < Unsigned(Negated(off))

\* file->pos += off and file->pos = size + off
SeekTarget(base, off) == Unsigned(base + Unsigned(off))

\* newoff = (file->pos > OFF64_MAX) ? OFF64_MAX : file->pos
Clamped(pos) == IF pos > OFF64_MAX THEN OFF64_MAX ELSE pos

\* vfs_seek(): the file of the descriptor is taken.
VfsSeekStart(t, offs, whences) ==
    /\ At(t, "idle")
    /\ \E fd \in Fds, off \in offs, whence \in whences :
          LET got == vfs_file_get(fds, files, fd)
          IN  IF got.file = NULL
              THEN /\ Return(t, "seek", 1, "ENOENT", {})
                   /\ UNCHANGED files
              ELSE /\ files[got.file].refcnt < MaxRefs
                   /\ files' = got.files
                   /\ Goto(t, "sk_mutex",
                           [Loc0 EXCEPT !.op = "seek", !.fd = fd,
                                        !.file = got.file, !.off = off,
                                        !.whence = whence])
    /\ UNCHANGED <<root, nodes, fds, namespace_rwlock, mtab_list, mtab_size,
                   mtab_list_lock, backend_vars, history_vars>>

\* The seek is answered: the file is unlocked and put, at position pos.
SeekAnswer(t, keep, rc, pos, reply) ==
    LET f == loc[t].file
        unlocked == [files EXCEPT ![f].pos = pos, ![f].lock = NULL]
    IN  /\ files' = vfs_file_put(fds, unlocked, f)
        /\ journal' = Logged([Answered("seek", f, rc) EXCEPT
                                 !.whence = loc[t].whence,
                                 !.off = loc[t].off,
                                 !.reply = reply], keep)
        /\ Return(t, "seek", 1, rc, {loc[t].whence})

\* The file is locked; SEEK_SET and SEEK_CUR are served, SEEK_END asks for the
\* contents lock of the node.
VfsSeekMutex(t, keep) ==
    /\ At(t, "sk_mutex")
    /\ files[loc[t].file].lock = NULL
    /\ LET f == loc[t].file
           off == loc[t].off
           whence == loc[t].whence
           pos == files[f].pos
       IN  IF whence = "SEEK_SET" /\ off >= 0
           THEN SeekAnswer(t, keep, "EOK", Unsigned(off), off)
           ELSE IF whence = "SEEK_CUR"
           THEN IF SeekOverflows(pos, off)
                THEN SeekAnswer(t, keep, "EOVERFLOW", pos, 0)
                ELSE SeekAnswer(t, keep, "EOK", SeekTarget(pos, off),
                                Clamped(SeekTarget(pos, off)))
           ELSE IF whence = "SEEK_END"
           THEN /\ files' = [files EXCEPT ![f].lock = t]
                /\ Goto(t, "sk_contents", loc[t])
                /\ UNCHANGED journal
           ELSE SeekAnswer(t, keep, "EINVAL", pos, 0)
    /\ UNCHANGED <<root, nodes, fds, namespace_rwlock, mtab_list, mtab_size,
                   mtab_list_lock, backend_vars, granted>>

\* SEEK_END: the contents of the node are locked for reading while its size
\* is taken.
VfsSeekEnd(t, keep) ==
    /\ At(t, "sk_contents")
    /\ LET f == loc[t].file
           n == files[f].node
           off == loc[t].off
           size == vfs_node_get_size(n)
       IN  /\ nodes[n].wr = NULL
           /\ IF SeekOverflows(size, off)
              THEN SeekAnswer(t, keep, "EOVERFLOW", files[f].pos, 0)
              ELSE SeekAnswer(t, keep, "EOK", SeekTarget(size, off),
                              Clamped(SeekTarget(size, off)))
    /\ UNCHANGED <<root, nodes, fds, namespace_rwlock, mtab_list, mtab_size,
                   mtab_list_lock, backend_vars, granted>>

SeekNext(t, offs, whences, keep) ==
    VfsSeekStart(t, offs, whences) \/ VfsSeekMutex(t, keep) \/ VfsSeekEnd(t, keep)

\* The clients that seek, in what the other client walks to.
Seekers == Tasks \ Openers

\* One client walks to the empty file /b and to the file /a/b of five bytes;
\* the others seek in what was walked to, with every offset and whence.
NextSeek ==
    \/ \E t \in Openers :
          WalkNext(t, WalksFromRoot({ <<"/", "b">>, <<"/", "a", "/", "b">> }))
    \/ \E t \in Seekers : SeekNext(t, Offsets, Whences, 0)
    \/ \E t \in Tasks : NextRequest(t)

SpecSeek == InitMounted /\ [][NextSeek]_vars

\* The server after a client has walked from the root to the file /b: the
\* file is descriptor 0, not open yet.
InitWalked ==
    /\ b_data = Formatted.data
    /\ journal = <<>>
    /\ granted = [f \in FileIds |-> {}]
    /\ root = HomeOf(Trip(1, 0))
    /\ nodes = [n \in NodeIds |->
                   IF n \in {HomeOf(Trip(1, 0)), HomeOf(Trip(1, 1)),
                             HomeOf(Trip(2, 0)), HomeOf(Trip(1, 2))}
                   THEN NodeFor(LookupOk(CHOOSE tr \in Triplets : HomeOf(tr) = n,
                                         Formatted.types, Formatted.ents).lr)
                   ELSE FreeNode]
    /\ fds = [fd \in Fds |-> IF fd = 0 THEN 1 ELSE NULL]
    /\ files = [f \in FileIds |->
                   IF f = 1
                   THEN [FreeFile EXCEPT
                            !.node = HomeOf(Trip(1, 2)),
                            !.permissions = {"MODE_READ", "MODE_WRITE",
                                             "MODE_APPEND"}]
                   ELSE FreeFile]
    /\ namespace_rwlock = NoLock
    /\ mtab_list = << MtabEnt(<<"/">>, 1), MtabEnt(<<"/", "a">>, 2) >>
    /\ mtab_size = 2
    /\ mtab_list_lock = NULL
    /\ b_inst = {1, 2}
    /\ b_type = Formatted.types
    /\ b_ents = Formatted.ents
    /\ b_mounts = {[mp |-> Trip(1, 1), mr |-> Trip(2, 0)]}
    /\ pc = [t \in Tasks |-> "idle"]
    /\ loc = [t \in Tasks |-> Loc0]

\* Every client sets the position of the file, moves it forward or measures
\* it from the end; the last two requests are kept.
NextRoundTrip ==
    \E t \in Tasks :
        \/ SeekNext(t, 0..OFF64_MAX, {"SEEK_SET", "SEEK_CUR", "SEEK_END"}, 2)
        \/ NextRequest(t)

SpecRoundTrip == InitWalked /\ [][NextRoundTrip]_vars

\* Two requests of the journal, one answered right after the other, on one
\* open file.
Consecutive(i) ==
    /\ i \in 1..(Len(journal) - 1)
    /\ journal[i].file = journal[i + 1].file

\* SEEK_SET(k), k >= 0, and right after it SEEK_CUR(0) on the same file.
SetThenCur(i) ==
    /\ Consecutive(i)
    /\ journal[i].op = "seek" /\ journal[i].whence = "SEEK_SET"
    /\ journal[i].off >= 0
    /\ journal[i + 1].op = "seek" /\ journal[i + 1].whence = "SEEK_CUR"
    /\ journal[i + 1].off = 0

\* C12. Seek round trip: SEEK_SET(k) with k >= 0, followed on the same
\* descriptor by SEEK_CUR(0) with no request on the descriptor in between,
\* succeeds, and the reply of SEEK_CUR is the position min(k, OFF64_MAX).
SeekRoundTrip ==
    \A i \in 1..Len(journal) :
        SetThenCur(i) =>
            /\ journal[i].rc = "EOK"
            /\ journal[i + 1].rc = "EOK"
            /\ journal[i + 1].reply = (IF journal[i].off < OFF64_MAX
                                       THEN journal[i].off ELSE OFF64_MAX)

\* A file was set to the greatest offset and SEEK_CUR(0) reported it.
SeekRoundTripSeen ==
    \E i \in 1..Len(journal) :
        /\ SetThenCur(i)
        /\ journal[i].off = OFF64_MAX
        /\ journal[i + 1].reply = OFF64_MAX

\* The seek of fibril t is answered in this step.
SeekAnswered(t) ==
    /\ pc[t] \in {"sk_mutex", "sk_contents"}
    /\ pc'[t] = "ret"

\* What the offset of the seek of fibril t is added to.
SeekBase(t) ==
    IF loc[t].whence = "SEEK_CUR" THEN files[loc[t].file].pos
    ELSE nodes[files[loc[t].file].node].size

\* C13. Seek overflow: a SEEK_CUR (base: the position) or a SEEK_END (base: the
\* cached size of the node) whose target base + offset is below 0 or beyond
\* the greatest aoff64_t replies EOVERFLOW and leaves the position of the
\* descriptor as it was; an unknown whence and a negative SEEK_SET offset reply
\* an error and leave the position as it was.
SeekOverflowRefused ==
    [][\A t \in Tasks :
          SeekAnswered(t) =>
              LET f == loc[t].file
                  target == SeekBase(t) + loc[t].off
              IN  /\ (/\ loc[t].whence \in {"SEEK_CUR", "SEEK_END"}
                      /\ (target < 0 \/ target >= OffModulus))
                        => /\ loc'[t].rc = "EOVERFLOW"
                           /\ files'[f].pos = files[f].pos
                  /\ (\/ loc[t].whence \notin {"SEEK_SET", "SEEK_CUR", "SEEK_END"}
                      \/ (loc[t].whence = "SEEK_SET" /\ loc[t].off < 0))
                        => /\ loc'[t].rc # "EOK"
                           /\ files'[f].pos = files[f].pos]_vars

\* A SEEK_END was refused with EOVERFLOW while a descriptor stands beyond
\* OFF64_MAX.
SeekOverflowSeen ==
    \E t \in Tasks, f \in FileIds :
        /\ pc[t] = "ret" /\ loc[t].op = "seek"
        /\ loc[t].rc = "EOVERFLOW" /\ "SEEK_END" \in loc[t].notes
        /\ files[f].node # NULL /\ files[f].pos > OFF64_MAX

\* ------------------------------------------------- what was written is read

\* The bytes a file holds at most where what is written is read back.
MaxData == 2

\* The server after the file /b was walked to and opened for reading and
\* writing, in append mode or not.
InitOpened ==
    /\ b_data = Formatted.data
    /\ journal = <<>>
    /\ granted = [f \in FileIds |-> {}]
    /\ root = HomeOf(Trip(1, 0))
    /\ nodes = [n \in NodeIds |->
                   IF n \in {HomeOf(Trip(1, 0)), HomeOf(Trip(1, 1)),
                             HomeOf(Trip(2, 0)), HomeOf(Trip(1, 2))}
                   THEN NodeFor(LookupOk(CHOOSE tr \in Triplets : HomeOf(tr) = n,
                                         Formatted.types, Formatted.ents).lr)
                   ELSE FreeNode]
    /\ fds = [fd \in Fds |-> IF fd = 0 THEN 1 ELSE NULL]
    /\ \E append \in BOOLEAN :
          files = [f \in FileIds |->
                      IF f = 1
                      THEN [FreeFile EXCEPT
                               !.node = HomeOf(Trip(1, 2)),
                               !.permissions = {"MODE_READ", "MODE_WRITE",
                                                "MODE_APPEND"},
                               !.open_read = TRUE, !.open_write = TRUE,
                               !.append = append]
                      ELSE FreeFile]
    /\ namespace_rwlock = NoLock
    /\ mtab_list = << MtabEnt(<<"/">>, 1), MtabEnt(<<"/", "a">>, 2) >>
    /\ mtab_size = 2
    /\ mtab_list_lock = NULL
    /\ b_inst = {1, 2}
    /\ b_type = Formatted.types
    /\ b_ents = Formatted.ents
    /\ b_mounts = {[mp |-> Trip(1, 1), mr |-> Trip(2, 0)]}
    /\ pc = [t \in Tasks |-> "idle"]
    /\ loc = [t \in Tasks |-> Loc0]

\* A client writes a byte, sets the position and reads a byte; the last three
\* requests are kept.
NextData ==
    \/ \E t \in Seekers :
          \/ RdwrFileNext(t, { <<"x">>, <<"y">> }, MaxData, 3)
          \/ SeekNext(t, 0..(MaxData - 1), {"SEEK_SET", "SEEK_END"}, 3)
    \/ \E t \in Tasks : NextRequest(t)

SpecData == InitOpened /\ [][NextData]_vars

\* A write of bytes at position p, SEEK_SET(p) and a read of as many bytes,
\* answered one right after the other on one open file, all with EOK.
WriteSeekRead(i) ==
    /\ Consecutive(i) /\ Consecutive(i + 1)
    /\ journal[i].op = "write" /\ journal[i].rc = "EOK"
    /\ journal[i + 1].op = "seek" /\ journal[i + 1].rc = "EOK"
    /\ journal[i + 1].whence = "SEEK_SET"
    /\ journal[i + 1].off = journal[i].pos
    /\ journal[i + 2].op = "read" /\ journal[i + 2].rc = "EOK"
    /\ journal[i + 2].count = Len(journal[i].payload)

\* C14 as stated. Write-then-read: on a file opened for reading and writing,
\* whatever other mode bits the open granted, the bytes written when the
\* position was p are what SEEK_SET(p) and a read of as many bytes return.
WriteThenRead ==
    \A i \in 1..Len(journal) :
        WriteSeekRead(i) => journal[i + 2].data = journal[i].payload

\* C14. Write-then-read, on a file that is not in append mode: the bytes
\* written when the position was p are what SEEK_SET(p) and a read of as many
\* bytes return.
WriteThenReadNoAppend ==
    \A i \in 1..Len(journal) :
        (WriteSeekRead(i) /\ ~journal[i].append)
            => journal[i + 2].data = journal[i].payload

\* A byte was written over another one, not in append mode, and read back.
WriteThenReadSeen ==
    \E i \in 1..Len(journal) :
        /\ WriteSeekRead(i) /\ ~journal[i].append
        /\ journal[i].payload = <<"y">>
        /\ journal[i].pos = 0
        /\ journal[i + 2].data = <<"y">>
        /\ Len(b_data[1][2]) = MaxData

\* --------------------------------------------------- unmount once idle

\* No descriptor refers to a node of the file system and no file system is
\* mounted inside it.
FsIdle(fs) ==
    /\ \A f \in FileIds :
           files[f].node # NULL => nodes[files[f].node].triplet.fs_handle # fs
    /\ \A m \in b_mounts : m.mp.fs_handle # fs

\* The number of entries that list the file system as mounted on the path.
EntriesOf(list, mp, fs) ==
    Cardinality({ i \in 1..Len(list) :
                     list[i].mp = mp /\ list[i].service_id = fs })

\* C15. Unmount succeeds once idle: an unmount of a mounted file system F to
\* which no descriptor refers and inside which nothing is mounted does not
\* reply EBUSY; once the UNMOUNT or UNMOUNTED call has succeeded, the node of
\* F's root is gone from the cache and, for the root file system, root is
\* unset, and the request replies EOK with F's entry taken off the list of
\* mounted file systems.
UnmountIdleSucceeds ==
    [][\A t \in Tasks :
          /\ (/\ pc[t] = "um_lookup" /\ "no_path" \notin loc[t].notes
              /\ pc'[t] = "ret" /\ loc'[t].rc = "EBUSY")
                => ~FsIdle(vfs_lookup_internal(loc[t].base, loc[t].path, {},
                                               b_type, b_ents)
                               .lr.triplet.fs_handle)
          /\ (pc[t] \in {"um_unmounted", "um_unmount"} /\ pc'[t] = "um_mtab")
                => /\ \A n \in Cached(nodes') :
                          nodes'[n].triplet # loc[t].lr.triplet
                   /\ IsRootPath(loc[t].path) => root' = NULL
          /\ (pc[t] = "um_mtab" /\ pc'[t] # "um_mtab")
                => /\ pc'[t] = "ret" /\ loc'[t].rc = "EOK"
                   /\ EntriesOf(mtab_list', loc[t].path,
                                loc[t].lr.triplet.fs_handle)
                        = EntriesOf(mtab_list, loc[t].path,
                                    loc[t].lr.triplet.fs_handle) - 1]_vars

\* ------------------------------------------------------- the root's life

\* The mount of fibril t is answered status by vfs_mount_internal() at its
\* check of the root, in this step: nothing is mounted, listed or asked of a
\* backend.
MountRefused(t, status) ==
    /\ pc'[t] = "ret"
    /\ {status, "root_check"} \subseteq loc'[t].notes
    /\ root' = root
    /\ mtab_list' = mtab_list /\ mtab_size' = mtab_size
    /\ UNCHANGED backend_vars

\* C16. Root lifecycle: root is unset initially; it becomes set only by a
\* mount at "/" that succeeds and unset only by an unmount of "/" that
\* succeeds; while root is unset a mount at another path than "/" is answered
\* ENOENT, while root is set a mount at "/" is answered EBUSY, and in both
\* cases root and the list of mounted file systems are left as they were and
\* no backend is asked anything.
RootLifecycle ==
    /\ root = NULL
    /\ [][/\ (root = NULL /\ root' # NULL)
                => \E t \in Tasks :
                      /\ pc[t] = "mi_mounted" /\ IsRootPath(loc[t].path)
                      /\ pc'[t] = "m_mtab" /\ loc'[t].rc = "EOK"
          /\ (root # NULL /\ root' = NULL)
                => \E t \in Tasks :
                      /\ pc[t] = "um_unmounted" /\ IsRootPath(loc[t].path)
                      /\ pc'[t] = "um_mtab"
          /\ \A t \in Tasks :
                (pc[t] = "mi_lock" /\ pc'[t] # "mi_lock")
                    => /\ (root = NULL /\ ~IsRootPath(loc[t].path))
                             => MountRefused(t, "ENOENT")
                       /\ (root # NULL /\ IsRootPath(loc[t].path))
                             => MountRefused(t, "EBUSY")]_vars

\* A mount at "/" was answered EBUSY at the check of the root, which is set,
\* by a root file system that is mounted and listed.
RootLifecycleSeen ==
    \E t \in Tasks :
        /\ pc[t] = "ret" /\ loc[t].op = "mount"
        /\ {"EBUSY", "root_check"} \subseteq loc[t].notes
        /\ root # NULL
        /\ Len(mtab_list) = 1

\* ------------------------------------------------------ the flags of walk

\* The flag words: every set of the defined flags and of one bit that is not
\* defined.
WalkWords == SUBSET (WALK_ALL_FLAGS \cup {"WALK_UNDEFINED"})

\* Every client walks from the root to the file /b and to /a/a, which does
\* not exist, with every flag word.
NextWalkFlags ==
    \E t \in Tasks :
        \/ WalkNext(t, [parents |-> {-1}, words |-> WalkWords,
                        paths |-> { <<"/", "b">>, <<"/", "a", "/", "a">> }])
        \/ NextRequest(t)

SpecWalkFlags == InitMounted /\ [][NextWalkFlags]_vars

\* The flag word the walk of fibril t has come with, in this step.
WalkWord(t) ==
    IF pc'[t] = "ret" THEN loc'[t].notes \ {"flags_invalid"} ELSE loc'[t].flags

\* The words the walk is to refuse.
WalkWordRefused(w) ==
    \/ w \ WALK_ALL_FLAGS # {}
    \/ {"WALK_MAY_CREATE", "WALK_MUST_CREATE"} \subseteq w
    \/ {"WALK_REGULAR", "WALK_DIRECTORY"} \subseteq w
    \/ /\ w \cap {"WALK_MAY_CREATE", "WALK_MUST_CREATE"} # {}
       /\ w \cap {"WALK_REGULAR", "WALK_DIRECTORY"} = {}

\* C17. Walk flag validation: a walk is answered EINVAL before the path is
\* received and before anything else is done exactly when its flag word has a
\* bit that is not a walk flag, or both MAY_CREATE and MUST_CREATE, or both
\* REGULAR and DIRECTORY, or a create flag without REGULAR or DIRECTORY; with
\* every other flag word it goes on.
WalkFlagValidation ==
    [][\A t \in Tasks :
          (pc[t] = "idle" /\ pc'[t] # "idle" /\ loc'[t].op = "walk")
              => (WalkWordRefused(WalkWord(t))
                    <=> /\ pc'[t] = "ret"
                        /\ loc'[t].rc = "EINVAL"
                        /\ "flags_invalid" \in loc'[t].notes
                        /\ UNCHANGED <<vfs_vars, backend_vars>>)]_vars

\* A walk that is to create, and says neither a file nor a directory, was
\* answered EINVAL.
WalkFlagValidationSeen ==
    \E t \in Tasks :
        /\ pc[t] = "ret" /\ loc[t].op = "walk" /\ loc[t].rc = "EINVAL"
        /\ loc[t].notes = {"flags_invalid", "WALK_MUST_CREATE"}

\* --------------------------------------------------- permissions and modes

\* The flag words a client opens with: each mode bit, two of them together,
\* and a word with a bit no descriptor permits.
ModeWords ==
    { {"MODE_READ"}, {"MODE_WRITE"}, {"MODE_APPEND"},
      {"MODE_READ", "MODE_APPEND"}, {"MODE_READ", "MODE_UNDEFINED"} }

\* One client walks from the root and from its descriptor 0, opens what it
\* has walked to, and closes it.
NextModes ==
    \E t \in Openers :
        \/ WalkNext(t, [parents |-> {-1, 0}, words |-> { {} },
                        paths |-> { <<"/">>, <<"/", "b">> }])
        \/ OpenNext(t, ModeWords, 1)
        \/ VfsClose(t)
        \/ NextRequest(t)

SpecModes == InitMounted /\ [][NextModes]_vars

\* The walk of fibril t makes a descriptor in this step.
WalkMakes(t, fd) ==
    /\ pc[t] = "w_lookup" /\ pc'[t] = "ret" /\ loc'[t].rc = "EOK"
    /\ fds[fd] = NULL /\ fds'[fd] # NULL

\* The open of fibril t comes in in this step, for a descriptor there is.
OpenArrives(t) ==
    /\ pc[t] = "idle" /\ pc'[t] # "idle"
    /\ loc'[t].op = "open" /\ loc'[t].file # NULL

\* The mode of every file is within its permissions.
ModeWithinPermissions ==
    \A f \in FileIds :
        /\ files[f].open_read => "MODE_READ" \in files[f].permissions
        /\ files[f].open_write =>
              files[f].permissions \cap {"MODE_WRITE", "MODE_APPEND"} # {}

\* C18. Permissions bound the open mode: a descriptor made by a walk starts
\* neither open for reading nor for writing, with the permissions of the
\* parent descriptor (all three when walked from the root); the permissions
\* of a file never change while it lives; the mode of every file is within
\* its permissions; and an open asking for a bit outside the permissions is
\* answered EPERM.
PermissionsBoundMode ==
    /\ ModeWithinPermissions
    /\ [][
          /\ \A t \in Tasks, fd \in Fds :
                WalkMakes(t, fd) =>
                    /\ ~files'[fds'[fd]].open_read
                    /\ ~files'[fds'[fd]].open_write
                    /\ files'[fds'[fd]].permissions =
                          IF loc[t].parent # NULL
                          THEN files[loc[t].parent].permissions
                          ELSE {"MODE_READ", "MODE_WRITE", "MODE_APPEND"}
          /\ \A f \in FileIds :
                files[f].node # NULL /\ files'[f].node # NULL =>
                    files'[f].permissions = files[f].permissions
          /\ \A t \in Tasks :
                OpenArrives(t) /\
                loc'[t].flags \ files[loc'[t].file].permissions # {} =>
                    pc'[t] = "ret" /\ loc'[t].rc = "EPERM"
          /\ ModeWithinPermissions'
       ]_vars

\* An open has been answered EPERM on a descriptor walked to from a parent
\* descriptor that is open for reading.
PermissionsBoundModeSeen ==
    \E t \in Tasks :
        /\ pc[t] = "ret" /\ loc[t].op = "open" /\ loc[t].rc = "EPERM"
        /\ loc[t].fd = 1 /\ fds[1] # NULL /\ fds[0] # NULL
        /\ files[fds[0]].open_read
        /\ files[fds[1]].permissions = files[fds[0]].permissions

\* ---------------------------------------------------- opens that fail

\* The open of fibril t is answered an error in this step, on a file there is.
OpenFails(t) ==
    /\ pc[t] \in {"idle", "op_remote"} /\ pc'[t] = "ret"
    /\ loc'[t].op = "open" /\ loc'[t].file # NULL
    /\ loc'[t].rc # "EOK"

\* C19. Open latches the mode bits only on success: when an open is answered
\* an error, open_read, open_write and append of the file are what they were
\* when the open came in.
OpenFailureKeepsMode ==
    [][\A t \in Tasks :
          OpenFails(t) => ModeBits(files'[loc'[t].file]) = loc'[t].notes]_vars

\* ------------------------------------------- reading and writing while opening

\* One client opens descriptor 0, the file /b it has walked to, for reading
\* or for writing, while another reads and writes through it.
NextOpenRace ==
    \/ \E t \in Openers :
          OpenNext(t, { {"MODE_READ"}, {"MODE_WRITE"} }, 1)
    \/ \E t \in Seekers : RdwrFileNext(t, OneByte, MaxPos, 0)
    \/ \E t \in Tasks : NextRequest(t)

SpecOpenRace == InitWalked /\ [][NextOpenRace]_vars

\* An open granting what the READ or WRITE of fibril t needs has been
\* answered EOK on its file.
OpenGranted(t) ==
    IF loc[t].flag THEN "MODE_READ" \in granted[loc[t].file]
    ELSE granted[loc[t].file] \cap {"MODE_WRITE", "MODE_APPEND"} # {}

\* C20. Read and write require a successful open: a READ or WRITE that no
\* open answered EOK has granted is refused with EINVAL at the check of the
\* open bits, and none is passed to the backend without such an open, also
\* while an open of the descriptor is waiting for its backend.
ReadWriteNeedOpen ==
    [][\A t \in Tasks :
          /\ (pc[t] = "rw_mutex" /\ pc'[t] # "rw_mutex" /\ ~OpenGranted(t))
                => (pc'[t] = "ret" /\ loc'[t].rc = "EINVAL")
          /\ (pc[t] = "rw_io" /\ pc'[t] # "rw_io") => OpenGranted(t)]_vars

\* ------------------------------------------- requests on one descriptor

\* Both clients read, write and seek through descriptor 0, the file /b opened
\* for reading and writing; the last answered request is kept.
NextSerial ==
    \E t \in Tasks :
        \/ RdwrFileNext(t, { <<"x">> }, MaxData, 1)
        \/ SeekNext(t, 0..(MaxData - 1), {"SEEK_SET", "SEEK_END"}, 1)
        \/ NextRequest(t)

SpecSerial == InitOpened /\ [][NextSerial]_vars

\* The fibrils that are past the mutex of file f, in a read, write or seek.
PastMutex(f) ==
    { t \in Tasks :
        /\ pc[t] \in {"rw_contents", "rw_nslock", "rw_io", "sk_contents"}
        /\ loc[t].file = f }

\* At most one fibril is past the mutex of a file, and it holds the mutex.
OneAtATime ==
    \A f \in FileIds :
        /\ Cardinality(PastMutex(f)) <= 1
        /\ \A t \in PastMutex(f) : files[f].lock = t

\* The read or write of fibril t is answered EOK in this step.
RdwrDone(t) ==
    /\ pc[t] = "rw_io" /\ pc'[t] = "ret" /\ loc'[t].rc = "EOK"
    /\ journal' # <<>>

\* The read or write answered in this step was forwarded with the position
\* the file had, and has moved the position by the bytes transferred.
RdwrAtPosition(t) ==
    LET f == loc[t].file
        tr == nodes[files[f].node].triplet
        old == b_data[tr.fs_handle][tr.index]
        e == journal'[Len(journal')]
    IN  IF loc[t].flag
        THEN /\ e.data = DataRead(old, files[f].pos, e.count)
             /\ files'[f].pos = files[f].pos + Len(e.data)
        ELSE /\ b_data'[tr.fs_handle][tr.index] =
                    DataWrite(old, files[f].pos, e.payload)
             /\ files'[f].pos = files[f].pos + Len(e.payload)

\* The position of a file moves only when a read, write or seek on it that
\* holds its mutex, or finds it free, is answered.
PositionOwned(f) ==
    files'[f].pos # files[f].pos =>
        \E t \in Tasks :
            /\ loc[t].file = f
            /\ pc[t] \in {"rw_io", "sk_mutex", "sk_contents"} /\ pc'[t] = "ret"
            /\ files[f].lock \in {NULL, t}

\* A step in which requests on one descriptor take effect one at a time,
\* those of `modes` leaving the position where the bytes transferred end.
SerialisedFor(modes) ==
    /\ OneAtATime'
    /\ \A f \in FileIds : PositionOwned(f)
    /\ \A t \in Tasks :
          RdwrDone(t) /\
          (~loc[t].flag /\ files[loc[t].file].append) \in modes =>
              RdwrAtPosition(t)

\* C21 as stated. Same-descriptor serialisation: reads, writes and seeks on one
\* descriptor take effect one at a time; each read and write is forwarded with
\* the position the previous request left and moves it by the bytes
\* transferred, so that no update of the position is lost.
SameDescriptorSerialised == OneAtATime /\ [][SerialisedFor(BOOLEAN)]_vars

\* C21, on what is not a write in append mode. Reads, writes and seeks on one
\* descriptor take effect one at a time; each read, and each write of a
\* descriptor that is not in append mode, is forwarded with the position the
\* previous request left and moves it by the bytes transferred.
SameDescriptorSerialisedNoAppend ==
    OneAtATime /\ [][SerialisedFor({FALSE})]_vars

\* A write of one byte at position 1 has been answered while the other client
\* waits for the mutex of the same file with a read.
SameDescriptorSerialisedSeen ==
    /\ journal # <<>>
    /\ journal[Len(journal)].op = "write" /\ journal[Len(journal)].rc = "EOK"
    /\ ~journal[Len(journal)].append
    /\ journal[Len(journal)].pos = 1
    /\ files[1].pos = 2
    /\ \E t \in Tasks : pc[t] = "rw_mutex" /\ loc[t].file = 1 /\ loc[t].flag

\* ------------------------------------------------ mounts that fail

\* The fibril serves a mount.
Mounting(t) == pc[t] \in {"idle", "mi_lock", "mi_mounted", "mi_lookup", "mi_mount"}

\* The references fibril t holds to node n for the mount it serves: the one to
\* the mount point, between the lookup and the backend's answer.
MountHolds(t, n) == IF pc[t] = "mi_mount" /\ loc[t].node = n THEN 1 ELSE 0

\* The step leaves the root and the list of mounted file systems alone.
RootAndMtabKept ==
    root' = root /\ mtab_list' = mtab_list /\ mtab_size' = mtab_size

\* C22. Mount rollback: when a mount ends with an error, the root and the list
\* of mounted file systems are as they were, and every reference the mount
\* took to a node is given back, a node left without references leaving the
\* cache; until then the mount holds nothing but one reference to its mount
\* point; an entry is added to the list only by a mount that succeeded.
MountRollback ==
    [][\A t \in Tasks :
          /\ (Mounting(t) /\ pc'[t] = "ret" /\ loc'[t].op = "mount" /\
              loc'[t].rc # "EOK")
                => /\ RootAndMtabKept
                   /\ \A n \in NodeIds :
                         /\ nodes'[n].refcnt = nodes[n].refcnt - MountHolds(t, n)
                         /\ nodes'[n].triplet =
                               IF nodes'[n].refcnt = 0 THEN NoTrip
                               ELSE nodes[n].triplet
          /\ (pc[t] = "mi_lookup" /\ pc'[t] = "mi_mount")
                => /\ RootAndMtabKept
                   /\ \A n \in NodeIds :
                         nodes'[n].refcnt =
                            nodes[n].refcnt + (IF loc'[t].node = n THEN 1 ELSE 0)
          /\ (pc[t] = "mi_lock" /\ pc'[t] \in {"mi_lookup", "mi_mounted"})
                => RootAndMtabKept /\ nodes' = nodes
          /\ (pc[t] = "m_mtab" /\ pc'[t] # "m_mtab")
                => loc[t].rc = "EOK" /\ pc'[t] = "ret" /\ loc'[t].rc = "EOK"
          /\ Len(mtab_list') > Len(mtab_list)
                => \E u \in Tasks : pc[u] = "m_mtab" /\ pc'[u] = "ret"]_vars

\* A mount on /a was refused by the backend after the mount point had been
\* looked up, with a root file system mounted and listed.
MountRollbackSeen ==
    \E t \in Tasks :
        /\ pc[t] = "ret" /\ loc[t].op = "mount"
        /\ {"internal_failed", "EEXIST"} \subseteq loc[t].notes
        /\ root # NULL /\ Len(mtab_list) = 1
        /\ nodes[HomeOf(Trip(1, 1))].refcnt = 0

\* ------------------------------------------------------------ vfs_unlink2

\* What the clients unlink with: the parent and the expected descriptors
\* (-1: none), the flag words and the paths.
UnlinksFromRoot(expects, paths) ==
    [parents |-> {-1}, expects |-> expects, words |-> { {} }, paths |-> paths]

\* int lflag = (wflag & WALK_DIRECTORY) ? L_DIRECTORY : 0;
unlink_lookup_flags(wflag) ==
    IF "WALK_DIRECTORY" \in wflag THEN {"L_DIRECTORY"} ELSE {}

\* Taking whatever the path names for the expected node.
UnlinkExpectAny(found, expected) == TRUE

\* __builtin_memcmp(&lr.triplet, expect->node, sizeof(vfs_triplet_t)) == 0
UnlinkExpectMatches(found, expected) == found = expected

\* vfs_unlink2() up to its taking of the name space lock: the root is read.
VfsUnlinkStart(t, in) ==
    /\ At(t, "idle")
    /\ \E parentfd \in in.parents, expectfd \in in.expects, wflag \in in.words,
          path \in in.paths, data \in {"ok", "no_data"} :
          IF data = "no_data"
          THEN Return(t, "unlink", 1, "EINVAL", {})
          ELSE Goto(t, "ul_lock",
                    [Loc0 EXCEPT !.op = "unlink", !.fd = parentfd,
                                 !.fd2 = expectfd, !.flags = wflag,
                                 !.path = path, !.node = root])
    /\ UNCHANGED <<vfs_vars, backend_vars, history_vars>>

\* exit: the files are put, the lock is released and the request answered; the
\* fibril stays at "ret" with what the unlink was called with.
UnlinkExit(t, fs, held, rc, notes) ==
    LET put1 == IF held.parent # NULL THEN vfs_file_put(fds, fs, held.parent)
                ELSE fs
        put2 == IF held.expect # NULL THEN vfs_file_put(fds, put1, held.expect)
                ELSE put1
    IN  /\ files' = put2
        /\ pc' = [pc EXCEPT ![t] = "ret"]
        /\ loc' = [loc EXCEPT ![t] = [loc[t] EXCEPT !.answers = 1, !.rc = rc,
                                                    !.notes = notes]]

\* The name space is locked for writing and the descriptors are taken.
VfsUnlinkLock(t) ==
    /\ At(t, "ul_lock")
    /\ CanWriteLock(namespace_rwlock)
    /\ LET parentfd == loc[t].fd
           expectfd == loc[t].fd2
           got1 == IF parentfd >= 0 THEN vfs_file_get(fds, files, parentfd)
                   ELSE [file |-> NULL, files |-> files]
           got2 == IF expectfd >= 0 THEN vfs_file_get(fds, got1.files, expectfd)
                   ELSE [file |-> NULL, files |-> got1.files]
           parent_node == IF parentfd >= 0 THEN got1.files[got1.file].node
                          ELSE loc[t].node
       IN  IF parentfd >= 0 /\ got1.file = NULL
           THEN /\ UnlinkExit(t, files, [parent |-> NULL, expect |-> NULL],
                              "ENOENT", {"no_parent"})
                /\ UNCHANGED namespace_rwlock
           ELSE IF expectfd >= 0 /\ got2.file = NULL
           THEN /\ UnlinkExit(t, got1.files,
                              [parent |-> got1.file, expect |-> NULL],
                              "ENOENT", {"no_expect"})
                /\ UNCHANGED namespace_rwlock
           ELSE /\ \A f \in FileIds : got2.files[f].refcnt <= MaxRefs
                /\ files' = got2.files
                /\ namespace_rwlock' = write_lock(namespace_rwlock, t)
                /\ \E base \in TripletRead(nodes, parent_node) :
                      Goto(t, IF expectfd >= 0 THEN "ul_expect" ELSE "ul_unlink",
                           [loc[t] EXCEPT !.parent = got1.file,
                                          !.file = got2.file,
                                          !.node = parent_node,
                                          !.base = base])
    /\ UNCHANGED <<root, nodes, fds, mtab_list, mtab_size, mtab_list_lock,
                   backend_vars, history_vars>>

\* The path has been looked up, to be compared with the expected node.
VfsUnlinkExpect(t) ==
    /\ At(t, "ul_expect")
    /\ \E refused \in BOOLEAN,
          expected \in TripletRead(nodes, files[loc[t].file].node) :
          LET res == IF refused THEN LookupFail("EIO", b_type, b_ents)
                     ELSE vfs_lookup_internal(loc[t].base, loc[t].path,
                              unlink_lookup_flags(loc[t].flags), b_type, b_ents)
              held == [parent |-> loc[t].parent, expect |-> loc[t].file]
          IN  IF res.rc # "EOK"
              THEN /\ UnlinkExit(t, files, held, res.rc, {"expect_lookup"})
                   /\ namespace_rwlock' = write_unlock(namespace_rwlock, t)
              ELSE IF ~UnlinkExpectMatches(res.lr.triplet, expected)
              THEN /\ UnlinkExit(t, files, held, "ENOENT", {"mismatch"})
                   /\ namespace_rwlock' = write_unlock(namespace_rwlock, t)
              ELSE /\ files' = vfs_file_put(fds, files, loc[t].file)
                   /\ Goto(t, "ul_unlink",
                           [loc[t] EXCEPT !.file = NULL, !.lr = res.lr])
                   /\ UNCHANGED namespace_rwlock
    /\ UNCHANGED <<root, nodes, fds, mtab_list, mtab_size, mtab_list_lock,
                   backend_vars, history_vars>>

\* The node of the removed name is left alone: nothing is taken, nothing put.
UnlinkLeaveNode(ns, types, ents, lr) == [nodes |-> ns, types |-> types]

\* vfs_node_put(vfs_node_get(&lr)): the node of the removed name is taken and
\* put, which destroys it when it has no other reference.  [nodes, types]
UnlinkDropNode(ns, types, ents, lr) ==
    LET got == vfs_node_get(ns, lr)
    IN  vfs_node_put(got.nodes, types, ents, got.id)

\* The path has been looked up with L_UNLINK: the backend has removed the
\* name, and the node is taken and put so that it is destroyed when it has
\* no reference left.
VfsUnlinkUnlink(t) ==
    /\ At(t, "ul_unlink")
    /\ \E refused \in BOOLEAN :
          LET res == IF refused THEN LookupFail("EIO", b_type, b_ents)
                     ELSE vfs_lookup_internal(loc[t].base, loc[t].path,
                              unlink_lookup_flags(loc[t].flags) \cup {"L_UNLINK"},
                              b_type, b_ents)
              held == [parent |-> loc[t].parent, expect |-> NULL]
              got == vfs_node_get(nodes, res.lr)
              put == UnlinkDropNode(nodes, b_type, res.ents, res.lr)
          IN  IF res.rc # "EOK"
              THEN /\ UnlinkExit(t, files, held, res.rc, {"unlink_lookup"})
                   /\ UNCHANGED <<nodes, b_type, b_ents>>
              ELSE /\ got.id # NULL
                   /\ b_ents' = res.ents
                   /\ nodes' = put.nodes
                   /\ b_type' = put.types
                   /\ UnlinkExit(t, files, held, "EOK", {"unlinked"})
    /\ namespace_rwlock' = write_unlock(namespace_rwlock, t)
    /\ UNCHANGED <<root, fds, mtab_list, mtab_size, mtab_list_lock, b_inst,
                   b_mounts, history_vars>>
    /\ b_data' = Scrub(b_data, b_type')

UnlinkNext(t, in) ==
    \/ VfsUnlinkStart(t, in) \/ VfsUnlinkLock(t) \/ VfsUnlinkExpect(t)
    \/ VfsUnlinkUnlink(t)

\* One client walks to the files /b and /a/b; the others unlink these names,
\* expecting what descriptor 0 or 1 denotes, or anything.
NextUnlink ==
    \/ \E t \in Openers :
          WalkNext(t, WalksFromRoot({ <<"/", "b">>, <<"/", "a", "/", "b">> }))
    \/ \E t \in Tasks \ Openers :
          UnlinkNext(t, UnlinksFromRoot({-1, 0, 1},
                                        { <<"/", "b">>, <<"/", "a", "/", "b">> }))
    \/ \E t \in Tasks : NextRequest(t)

SpecUnlink == InitMounted /\ [][NextUnlink]_vars

\* What the path of the unlink served by t resolves to, without L_UNLINK.
UnlinkResolves(t) ==
    vfs_lookup_internal(loc[t].base, loc[t].path,
                        unlink_lookup_flags(loc[t].flags), b_type, b_ents)

\* The triplet of the node of the descriptor the unlink served by t expects.
UnlinkExpected(t) == nodes[files[loc[t].file].node].triplet

\* The names the step removes.
NamesRemoved(fs) == b_ents[fs] \ b_ents'[fs]

\* C23. Guarded unlink: an unlink given an expected descriptor that is not
\* open, or whose path does not resolve, or resolves to another triplet than
\* that of the descriptor's node, is answered an error (ENOENT for the other
\* triplet) without a lookup with L_UNLINK, and every name stays; the lookup
\* with L_UNLINK follows only when the triplets are equal, and removes the
\* name of that triplet and no other.
GuardedUnlink ==
    [][\A t \in Tasks :
          /\ (pc[t] = "ul_lock" /\ pc'[t] # "ul_lock" /\ loc[t].fd2 >= 0 /\
              fds[loc[t].fd2] = NULL)
                => (pc'[t] = "ret" /\ loc'[t].rc # "EOK" /\ b_ents' = b_ents)
          /\ (pc[t] = "ul_expect" /\ pc'[t] # "ul_expect")
                => /\ b_ents' = b_ents
                   /\ IF UnlinkResolves(t).rc = "EOK" /\
                         UnlinkResolves(t).lr.triplet = UnlinkExpected(t)
                      THEN pc'[t] = "ul_unlink" \/
                           (pc'[t] = "ret" /\ loc'[t].rc = "EIO")
                      ELSE /\ pc'[t] = "ret"
                           /\ loc'[t].rc # "EOK"
                           /\ (UnlinkResolves(t).rc = "EOK" =>
                                  loc'[t].rc \in {"ENOENT", "EIO"})
          /\ (pc[t] = "ul_unlink" /\ loc[t].fd2 >= 0)
                => \A fs \in FsInsts : \A e \in NamesRemoved(fs) :
                      Trip(fs, e[3]) = loc[t].lr.triplet
          /\ (pc[t] # "ul_unlink" /\ pc'[t] # pc[t])
                => b_ents' = b_ents]_vars

\* An unlink of /b expecting descriptor 1, which denotes /a/b, was answered
\* ENOENT and /b is still linked.
GuardedUnlinkSeen ==
    \E t \in Tasks :
        /\ pc[t] = "ret" /\ loc[t].op = "unlink" /\ loc[t].rc = "ENOENT"
        /\ loc[t].fd2 = 1 /\ loc[t].path = <<"/", "b">>
        /\ fds[1] # NULL /\ nodes[files[fds[1]].node].triplet = Trip(2, 1)
        /\ <<0, "b", 2>> \in b_ents[1]

\* --------------------------------------------------------------- vfs_dup

\* vfs_fd_assign(file, fd): the record is bound to the slot, which is free,
\* and its node gets one reference more.  [rc, fds, files, nodes]
vfs_fd_assign(fd_tab, fs, ns, f, fd) ==
    IF fd \notin Fds \/ fd_tab[fd] # NULL
    THEN [rc |-> "EINVAL", fds |-> fd_tab, files |-> fs, nodes |-> ns]
    ELSE [rc |-> "EOK", fds |-> [fd_tab EXCEPT ![fd] = f], files |-> fs,
          nodes |-> [ns EXCEPT ![fs[f].node].refcnt = @ + 1]]

\* A dup that replies without assigning the old file to the new slot.
DupAssignNone(fd_tab, fs, ns, f, fd) ==
    [rc |-> "EOK", fds |-> fd_tab, files |-> fs, nodes |-> ns]

\* "Assign the old file to newfd."
DupAssign(fd_tab, fs, ns, f, fd) == vfs_fd_assign(fd_tab, fs, ns, f, fd)

\* vfs_dup() returns: the fibril stays at "ret" with the descriptors it was
\* called with and the descriptor it replied.
DupReturn(t, l, rc, reply) ==
    /\ pc' = [pc EXCEPT ![t] = "ret"]
    /\ loc' = [loc EXCEPT ![t] = [l EXCEPT !.answers = 1, !.rc = rc,
                                           !.off = reply]]

\* vfs_dup() up to the mutex of the old file.
VfsDupStart(t, olds, news) ==
    /\ At(t, "idle")
    /\ \E oldfd \in olds, newfd \in news :
          LET got == vfs_file_get(fds, files, oldfd)
              l == [Loc0 EXCEPT !.op = "dup", !.fd = oldfd, !.fd2 = newfd,
                                !.file = got.file]
          IN  IF oldfd = newfd
              THEN /\ DupReturn(t, [l EXCEPT !.file = NULL], "EOK", newfd)
                   /\ UNCHANGED files
              ELSE IF got.file = NULL
              THEN /\ DupReturn(t, l, "EBADF", -1)
                   /\ UNCHANGED files
              ELSE /\ files[got.file].refcnt < MaxRefs
                   /\ files' = got.files
                   /\ Goto(t, "dp_mutex", l)
    /\ UNCHANGED <<root, nodes, fds, namespace_rwlock, mtab_list, mtab_size,
                   mtab_list_lock, backend_vars, history_vars>>

\* The old file is locked: the new slot is closed and given the old file.
VfsDupMutex(t) ==
    /\ At(t, "dp_mutex")
    /\ files[loc[t].file].lock = NULL
    /\ LET f == loc[t].file
           newfd == loc[t].fd2
           freed == vfs_fd_free(fds, files, nodes, b_type, b_ents, newfd)
           bound == DupAssign(freed.fds, freed.files, freed.nodes, f, newfd)
       IN  /\ fds' = bound.fds
           /\ nodes' = bound.nodes
           /\ b_type' = freed.types
           /\ files' = vfs_file_put(bound.fds, bound.files, f)
           /\ granted' = [g \in FileIds |->
                             IF freed.files[g] = FreeFile THEN {} ELSE granted[g]]
           /\ DupReturn(t, loc[t], bound.rc,
                        IF bound.rc = "EOK" THEN newfd ELSE -1)
    /\ UNCHANGED <<root, namespace_rwlock, mtab_list, mtab_size, mtab_list_lock,
                   b_inst, b_ents, b_mounts, journal>>
    /\ b_data' = Scrub(b_data, b_type')

DupNext(t, olds, news) == VfsDupStart(t, olds, news) \/ VfsDupMutex(t)

\* One client walks to the files /b and /a/b, duplicates its descriptors, onto
\* slots in and out of the table, and closes them; the other sets the position
\* of what is open.
NextDup ==
    \/ \E t \in Openers :
          \/ WalkNext(t, WalksFromRoot({ <<"/", "b">>, <<"/", "a", "/", "b">> }))
          \/ DupNext(t, Fds, 0..MaxFd)
          \/ VfsClose(t)
    \/ \E t \in Seekers : SeekNext(t, {1}, {"SEEK_SET", "SEEK_END"}, 0)
    \/ \E t \in Tasks : NextRequest(t)

SpecDup == InitMounted /\ [][NextDup]_vars

\* The dup of fibril t is answered in this step.
DupReplies(t) ==
    pc[t] \in {"idle", "dp_mutex"} /\ pc'[t] = "ret" /\ loc'[t].op = "dup"

\* The slots of the table that denote a file on node n, when the files are fs.
SlotsOf(fd_tab, fs, n) ==
    Cardinality({ fd \in Fds : fd_tab[fd] # NULL /\ fs[fd_tab[fd]].node = n })

\* C24. Dup: dup(old, new) with old = new replies EOK with new and changes
\* nothing; with old not open and old # new it replies EBADF and changes
\* nothing; when it replies EOK with old # new, slot new and slot old denote
\* one file record, that of old, with its node, position and mode as they
\* were, and what slot new denoted before is closed: its record is freed
\* unless another slot holds it, and every node has as many references more
\* or fewer as slots more or fewer denote it.
DupShares ==
    [][\A t \in Tasks :
          DupReplies(t) =>
              LET old == loc'[t].fd
                  new == loc'[t].fd2
                  f == fds[old]
                  g == fds[new]
              IN  IF old = new
                  THEN /\ loc'[t].rc = "EOK" /\ loc'[t].off = new
                       /\ UNCHANGED <<vfs_vars, backend_vars>>
                  ELSE IF pc[t] = "idle"
                  THEN /\ f = NULL
                       /\ loc'[t].rc = "EBADF"
                       /\ UNCHANGED <<vfs_vars, backend_vars>>
                  ELSE loc'[t].rc = "EOK" =>
                       /\ new \in Fds
                       /\ loc'[t].off = new
                       /\ f # NULL /\ fds'[old] = f /\ fds'[new] = f
                       /\ files'[f].node = files[f].node
                       /\ files'[f].pos = files[f].pos
                       /\ ModeBits(files'[f]) = ModeBits(files[f])
                       /\ (g # NULL /\ g # f /\ files[g].refcnt = 0)
                             => IF \A fd \in Fds \ {new} : fds[fd] # g
                                THEN files'[g] = FreeFile
                                ELSE files'[g] = files[g]
                       /\ \A n \in NodeIds :
                             nodes'[n].refcnt - nodes[n].refcnt =
                                SlotsOf(fds', files, n) - SlotsOf(fds, files, n)
      ]_vars

\* A dup of the descriptor of /a/b onto that of /b has replied EOK: both slots
\* denote the file on /a/b, at the position a seek has left, and the node of /b
\* has left the cache.
DupSharesSeen ==
    \E t \in Tasks :
        /\ pc[t] = "ret" /\ loc[t].op = "dup" /\ loc[t].rc = "EOK"
        /\ loc[t].fd = 1 /\ loc[t].fd2 = 0
        /\ fds[0] # NULL /\ fds[0] = fds[1]
        /\ files[fds[0]].pos = 1
        /\ files[fds[0]].node # NULL
        /\ nodes[files[fds[0]].node].triplet = Trip(2, 1)
        /\ \A n \in NodeIds : nodes[n].triplet # Trip(1, 2)

\* ------------------------------------------------- when nodes are destroyed

\* An unlink with no expected descriptor, from the root.
UnlinkPlainNext(t, paths) ==
    \/ VfsUnlinkStart(t, UnlinksFromRoot({-1}, paths))
    \/ VfsUnlinkLock(t) \/ VfsUnlinkUnlink(t)

\* One client walks to /b and /a/b and closes what it has; the others unlink
\* these names, rename among /a, /b, /a/a and /a/b, and unmount.
NextDestroy ==
    \/ \E t \in Openers :
          \/ WalkNext(t, WalksFromRoot({ <<"/", "b">>, <<"/", "a", "/", "b">> }))
          \/ VfsClose(t)
    \/ \E t \in Tasks \ Openers :
          \/ UnlinkPlainNext(t, { <<"/", "b">>, <<"/", "a", "/", "b">> })
          \/ RenameNext(t)
          \/ UnmountNext(t)
    \/ \E t \in Tasks : NextRequest(t)

SpecDestroy == InitMounted /\ [][NextDestroy]_vars

\* The backend has the node of the triplet.
Exists(types, trip) == types[trip.fs_handle][trip.index] # "free"

\* The step has the backend destroy the node of the triplet.
Destroyed(trip) == Exists(b_type, trip) /\ ~Exists(b_type', trip)

\* The references to the node of the triplet, in the cache.
RefsOn(ns, trip) ==
    IF \E n \in NodeIds : ns[n].triplet = trip
    THEN ns[CHOOSE n \in NodeIds : ns[n].triplet = trip].refcnt
    ELSE 0

\* The descriptors on the node of the triplet.
FdsOn(trip) ==
    { fd \in Fds : /\ fds[fd] # NULL
                   /\ files[fds[fd]].node # NULL
                   /\ nodes[files[fds[fd]].node].triplet = trip }

\* The step is an unlink, or a rename onto an existing name, that succeeds,
\* and trip is what the name it removes denoted.
Orphans(t, trip) ==
    \/ /\ pc[t] = "ul_unlink" /\ pc'[t] = "ret" /\ loc'[t].rc = "EOK"
       /\ \E e \in NamesRemoved(trip.fs_handle) : e[3] = trip.index
    \/ /\ pc[t] = "rn_link" /\ pc'[t] = "ret" /\ loc'[t].rc = "EOK"
       /\ loc[t].flag
       /\ loc[t].lr2.triplet = trip

\* Nodes are destroyed when their last reference goes, not before and, when
\* a name is removed, not after; unused(trip) says that the node of the
\* removed name has nothing that keeps it.
DestroyedWhen(unused(_)) ==
    /\ \A trip \in Triplets :
          /\ Destroyed(trip)
                => /\ RefsOn(nodes', trip) = 0
                   /\ \A e \in b_ents'[trip.fs_handle] : e[3] # trip.index
          /\ FdsOn(trip) # {} => Exists(b_type, trip)
          /\ \A t \in Tasks :
                Orphans(t, trip)
                   => IF unused(trip)
                      THEN ~Exists(b_type', trip)
                      ELSE /\ Exists(b_type', trip)
                           /\ RefsOn(nodes', trip) = RefsOn(nodes, trip)
    /\ \A t \in Tasks :
          (loc[t].op = "unmount" /\ pc'[t] # pc[t]) => b_type' = b_type

NoDescriptorOn(trip) == FdsOn(trip) = {}

NoReferenceOn(trip) == RefsOn(nodes, trip) = 0

\* C25. DESTROY timing: a node is destroyed at the backend only in a step
\* that leaves it no reference in the cache; as long as a descriptor is on a
\* node the backend has it; an unlink, or a rename onto an existing name,
\* that succeeds leaves the node of the removed name alone when a descriptor
\* is on it and has it destroyed before it returns when none is; no step of
\* an unmount destroys a node.
DestroyTiming == [][DestroyedWhen(NoDescriptorOn)]_vars

\* The same, with "when it has a reference in the cache" for "when a
\* descriptor is on it".
DestroyTimingRefs == [][DestroyedWhen(NoReferenceOn)]_vars

\* The file /b has been unlinked while a descriptor was on it: the unlink has
\* returned, the descriptor is there, and the backend still has the node.
DestroyTimingSeen ==
    /\ Exists(b_type, Trip(1, 2))
    /\ FdsOn(Trip(1, 2)) # {}
    /\ \A e \in b_ents[1] : e[3] # 2
    /\ \E t \in Tasks : pc[t] = "ret" /\ loc[t].op = "unlink" /\ loc[t].rc = "EOK"
                         /\ "unlinked" \in loc[t].notes

\* --------------------------------------------- the mutex of a descriptor

\* The fields of a file record its mutex is there for.
FieldsOf(file) ==
    [pos |-> file.pos, open_read |-> file.open_read,
     open_write |-> file.open_write, append |-> file.append,
     permissions |-> file.permissions]

\* The fibril that takes the step.
Stepping(t) == pc'[t] # pc[t] \/ loc'[t] # loc[t]

\* C26. Descriptor mutex discipline: the position, open_read, open_write,
\* append and permissions of a file record in use change only in a step of
\* the fibril that holds the mutex of the record.
DescriptorMutexHeld ==
    [][\A f \in FileIds :
          (files[f] # FreeFile /\ files'[f] # FreeFile /\
           FieldsOf(files'[f]) # FieldsOf(files[f]))
             => (files[f].lock # NULL /\ Stepping(files[f].lock))]_vars

\* ------------------------------------------ who is in the name space when

\* The walk served by t may create a name.
WalkCreates(t) ==
    loc[t].flags \cap {"WALK_MAY_CREATE", "WALK_MUST_CREATE"} # {}

\* Where mount, unmount, rename and unlink are between locking the name space
\* and unlocking it.
ChangingLabels ==
    {"mi_mounted", "mi_lookup", "mi_mount",
     "um_lookup", "um_unmounted", "um_lookup_mp", "um_unmount",
     "rn_base", "rn_unlink_new", "rn_unlink_old", "rn_link", "rn_relink_old",
     "rn_relink_new",
     "ul_expect", "ul_unlink"}

\* Fibril t is in the lookup and backend phase of a request that changes the
\* name space.
NamespaceChanger(t) ==
    pc[t] \in ChangingLabels \/ (pc[t] = "w_lookup" /\ WalkCreates(t))

\* Fibril t is in the lookup of a walk that creates nothing.
PureLookup(t) == pc[t] = "w_lookup" /\ ~WalkCreates(t)

\* C27. Namespace writers are exclusive: a fibril in the lookup and backend
\* phase of a mount, unmount, rename, unlink or walk with a create flag holds
\* the name space lock for writing, and no other fibril is in such a phase
\* or in the lookup of a walk at that time.
NamespaceWritersExclusive ==
    \A t \in Tasks :
        NamespaceChanger(t)
           => /\ namespace_rwlock.writer = t
              /\ \A u \in Tasks \ {t} : ~NamespaceChanger(u) /\ ~PureLookup(u)

\* ------------------------------------------------- reading a directory

\* One client walks to the root directory and to /a/a, creating this file
\* when it is asked to, and opens for reading; the others read what is open.
NextReaddir ==
    \/ \E t \in Openers :
          \/ WalkNext(t, [parents |-> {-1},
                          words |-> { {}, {"WALK_MAY_CREATE", "WALK_REGULAR"} },
                          paths |-> { <<"/">>, <<"/", "a", "/", "a">> }])
          \/ OpenNext(t, { {"MODE_READ"} }, 0)
    \/ \E t \in Tasks \ Openers : RdwrNext(t, { <<"x">> }, MaxPos, 0)
    \/ \E t \in Tasks : NextRequest(t)

SpecReaddir == InitMounted /\ [][NextReaddir]_vars

\* The READ of a directory served by t has been forwarded to the backend and
\* is not answered yet.
ReaddirForwarded(t) ==
    /\ pc[t] = "rw_io"
    /\ loc[t].flag
    /\ nodes[files[loc[t].file].node].type = "dir"

\* C28. Readdir excludes namespace mutation: while the READ of a directory is
\* with the backend, no mount, unmount, unlink, rename or creating walk is
\* between locking the name space and the answer of its backend.
ReaddirExcludesMutation ==
    \A t \in Tasks :
        ReaddirForwarded(t) => \A u \in Tasks \ {t} : ~NamespaceChanger(u)

\* ------------------------------------------------- the root and its lock

\* Fibril t is looking up from the root: in a walk or an unlink that came
\* without a parent descriptor, between locking the name space and the
\* answer of the backend.
LooksUpFromRoot(t) ==
    /\ pc[t] \in {"w_lookup", "ul_expect", "ul_unlink"}
    /\ loc[t].fd = -1

\* C29. Root is protected by the namespace rwlock: the base of a lookup from
\* the root is the triplet of the node that is the root while the lookup
\* holds the name space lock, never that of a root an unmount has cleared
\* and forgotten, and never that of no root.
RootReadUnderLock ==
    \A t \in Tasks :
        LooksUpFromRoot(t)
           => /\ root # NULL
              /\ loc[t].base = nodes[root].triplet

\* ------------------------------------------------ the contents of a node

\* One client walks to the files /b and /a/b and opens what it walked to for
\* reading and writing; every client reads and writes a byte.
NextContents ==
    \/ \E t \in Openers :
          \/ WalkNext(t, WalksFromRoot({ <<"/", "b">>, <<"/", "a", "/", "b">> }))
          \/ OpenNext(t, { {"MODE_READ", "MODE_WRITE"} }, 0)
    \/ \E t \in Tasks : RdwrFileNext(t, { <<"x">> }, MaxPos, 0)
    \/ \E t \in Tasks : NextRequest(t)

SpecContents == InitMounted /\ [][NextContents]_vars

\* The READ or WRITE served by t is with the backend.
Forwarded(t) == pc[t] = "rw_io"

\* The node the READ or WRITE served by t is for.
RdwrNode(t) == files[loc[t].file].node

\* The file system of the node lets writes go along with reads and writes.
WritesShare(n) ==
    LET fs_info == fs_handle_to_info(nodes[n].triplet.fs_handle)
    IN  fs_info.concurrent_read_write /\ fs_info.write_retains_size

\* C30. Content write exclusion: when the file system of a node does not
\* advertise both concurrent_read_write and write_retains_size, a WRITE that
\* is with the backend holds the contents lock of the node for writing and no
\* other READ or WRITE for that node is with the backend; every other request
\* that is with the backend holds the contents lock for reading.
ContentWriteExclusion ==
    \A t \in Tasks :
        Forwarded(t)
           => IF ~loc[t].flag /\ ~WritesShare(RdwrNode(t))
              THEN /\ nodes[RdwrNode(t)].wr = t
                   /\ \A u \in Tasks \ {t} :
                         Forwarded(u) => RdwrNode(u) # RdwrNode(t)
              ELSE /\ t \in nodes[RdwrNode(t)].rd
                   /\ nodes[RdwrNode(t)].wr = NULL

\* Two WRITEs for the file /a/b, whose file system advertises both, are
\* with the backend at the same time.
ContentWritesOverlap ==
    \E t \in Tasks : \E u \in Tasks \ {t} :
        /\ Forwarded(t) /\ Forwarded(u)
        /\ ~loc[t].flag /\ ~loc[u].flag
        /\ RdwrNode(t) = RdwrNode(u)
        /\ nodes[RdwrNode(t)].triplet = Trip(2, 1)

\* Two READs for the file /b, whose file system advertises neither, are with
\* the backend at the same time.
ContentReadsOverlap ==
    \E t \in Tasks : \E u \in Tasks \ {t} :
        /\ Forwarded(t) /\ Forwarded(u)
        /\ loc[t].flag /\ loc[u].flag
        /\ RdwrNode(t) = RdwrNode(u)
        /\ nodes[RdwrNode(t)].triplet = Trip(1, 2)

\* ---------------------------------------------------------- vfs_truncate

\* The backend cuts or extends the bytes of a file to size bytes.
DataTruncate(old, size) ==
    [i \in 1..size |-> IF i <= Len(old) THEN old[i] ELSE Hole]

\* The cached size of a node that a truncate leaves as it was.
TruncateKeepsSize(old, size) == old

\* file->node->size = size
TruncateSetsSize(old, size) == size

\* vfs_truncate(): the file of the descriptor is taken.
VfsTruncateStart(t, sizes) ==
    /\ At(t, "idle")
    /\ \E fd \in Fds, size \in sizes :
          LET got == vfs_file_get(fds, files, fd)
          IN  IF got.file = NULL
              THEN /\ Return(t, "truncate", 1, "ENOENT", {})
                   /\ UNCHANGED files
              ELSE /\ files[got.file].refcnt < MaxRefs
                   /\ files' = got.files
                   /\ Goto(t, "tr_mutex",
                           [Loc0 EXCEPT !.op = "truncate", !.fd = fd,
                                        !.file = got.file, !.off = size])
    /\ UNCHANGED <<root, nodes, fds, namespace_rwlock, mtab_list, mtab_size,
                   mtab_list_lock, backend_vars, history_vars>>

\* The file is locked.
VfsTruncateMutex(t) ==
    /\ At(t, "tr_mutex")
    /\ files[loc[t].file].lock = NULL
    /\ files' = [files EXCEPT ![loc[t].file].lock = t]
    /\ Goto(t, "tr_contents", loc[t])
    /\ UNCHANGED <<root, nodes, fds, namespace_rwlock, mtab_list, mtab_size,
                   mtab_list_lock, backend_vars, history_vars>>

\* The contents of the node are locked for writing.
VfsTruncateContents(t) ==
    /\ At(t, "tr_contents")
    /\ LET n == files[loc[t].file].node
       IN  /\ nodes[n].wr = NULL /\ nodes[n].rd = {}
           /\ nodes' = [nodes EXCEPT ![n].wr = t]
    /\ Goto(t, "tr_io", loc[t])
    /\ UNCHANGED <<root, fds, files, namespace_rwlock, mtab_list, mtab_size,
                   mtab_list_lock, backend_vars, history_vars>>

\* The backend has answered VFS_OUT_TRUNCATE: the size is latched, the locks
\* are released and the request is answered.
VfsTruncateIo(t, keep) ==
    /\ At(t, "tr_io")
    /\ \E refused \in BOOLEAN :
          LET f == loc[t].file
              n == files[f].node
              tr == nodes[n].triplet
              size == loc[t].off
              rc == IF refused THEN "EIO"
                    ELSE IF b_type[tr.fs_handle][tr.index] # "file" THEN "EINVAL"
                    ELSE "EOK"
              old == b_data[tr.fs_handle][tr.index]
          IN  /\ b_data' = IF rc = "EOK"
                           THEN [b_data EXCEPT ![tr.fs_handle][tr.index] =
                                                  DataTruncate(old, size)]
                           ELSE b_data
              /\ nodes' = [nodes EXCEPT
                              ![n].size = IF rc = "EOK"
                                          THEN TruncateSetsSize(@, size) ELSE @,
                              ![n].wr = NULL]
              /\ files' = vfs_file_put(fds, [files EXCEPT ![f].lock = NULL], f)
              /\ journal' = Logged([Answered("truncate", f, rc) EXCEPT
                                       !.off = size], keep)
              /\ Return(t, "truncate", 1, rc, {})
    /\ UNCHANGED <<root, fds, namespace_rwlock, mtab_list, mtab_size,
                   mtab_list_lock, b_inst, b_type, b_ents, b_mounts, granted>>

TruncateNext(t, sizes, keep) ==
    \/ VfsTruncateStart(t, sizes) \/ VfsTruncateMutex(t)
    \/ VfsTruncateContents(t) \/ VfsTruncateIo(t, keep)

\* Every client truncates the file /b through descriptor 0; one also reads
\* and writes a byte, the others ask for the end of the file; the last two
\* answered requests are kept.
NextSizes ==
    \/ \E t \in Openers : RdwrFileNext(t, { <<"x">> }, MaxData, 2)
    \/ \E t \in Seekers : SeekNext(t, {0}, {"SEEK_END"}, 2)
    \/ \E t \in Tasks : TruncateNext(t, 0..MaxData, 2) \/ NextRequest(t)

SpecSizes == InitOpened /\ [][NextSizes]_vars

\* The size the backend has for the node n of the cache, after the step.
BackendSizeAfter(n) ==
    Len(b_data'[nodes[n].triplet.fs_handle][nodes[n].triplet.index])

\* The cached size of a node changes only in the step of the fibril that
\* holds its contents lock for writing, when a write or a truncate is
\* answered EOK, and becomes what the backend reports or what was asked for;
\* a write or a truncate that is answered an error leaves it.
SizeLatched ==
    /\ \A n \in NodeIds :
          (nodes[n].triplet # NoTrip /\ nodes'[n].triplet = nodes[n].triplet /\
           nodes'[n].size # nodes[n].size)
             => /\ nodes[n].wr # NULL
                /\ pc[nodes[n].wr] \in {"rw_io", "tr_io"}
                /\ pc'[nodes[n].wr] = "ret"
                /\ loc'[nodes[n].wr].rc = "EOK"
                /\ files[loc[nodes[n].wr].file].node = n
                /\ nodes'[n].size = IF pc[nodes[n].wr] = "tr_io"
                                    THEN loc[nodes[n].wr].off
                                    ELSE BackendSizeAfter(n)
    /\ \A t \in Tasks :
          (pc[t] \in {"rw_io", "tr_io"} /\ pc'[t] = "ret")
             => LET n == files[loc[t].file].node
                IN  /\ (loc'[t].rc # "EOK" => nodes'[n].size = nodes[n].size)
                    /\ (pc[t] = "tr_io" /\ loc'[t].rc = "EOK")
                          => nodes'[n].size = loc[t].off

\* A truncate answered EOK and, answered next, a SEEK_END with offset 0 on a
\* descriptor of the same node: the seek reports the size of the truncate.
TruncateThenEnd ==
    Len(journal) >= 2 =>
        LET a == journal[Len(journal) - 1]
            b == journal[Len(journal)]
        IN  (/\ a.op = "truncate" /\ a.rc = "EOK"
             /\ b.op = "seek" /\ b.whence = "SEEK_END" /\ b.off = 0
             /\ b.rc = "EOK")
               => b.reply = a.off

\* C31. Cached size consistency: a node's cached size is changed only by the
\* fibril that holds the node's contents lock for writing, to the size a
\* successful write reports or a successful truncate asked for; a SEEK_END
\* with offset 0 answered right after a truncate to n answered EOK reports
\* n; a failed write or truncate leaves the cached size.
CachedSizeConsistent == []TruncateThenEnd /\ [][SizeLatched]_vars

\* A truncate of /b to two bytes and then a SEEK_END have been answered, the
\* seek with 2.
CachedSizeConsistentSeen ==
    /\ Len(journal) = 2
    /\ journal[1].op = "truncate" /\ journal[1].rc = "EOK"
    /\ journal[1].off = MaxData
    /\ journal[2].op = "seek" /\ journal[2].rc = "EOK"
    /\ journal[2].reply = MaxData
    /\ nodes[HomeOf(Trip(1, 2))].size = MaxData

\* ------------------------------------------------------- writes that append

\* The read or write of fibril t is answered in this step.
RdwrAnswered(t) == pc[t] = "rw_io" /\ pc'[t] = "ret"

\* What the answered request has transferred, as the journal has it.
Transferred ==
    LET e == journal'[Len(journal')]
    IN  IF e.op = "read" THEN Len(e.data)
        ELSE IF e.rc = "EOK" THEN Len(e.payload) ELSE 0

\* Where the write of fibril t is to be forwarded: at the cached size of the
\* node when the file appends, at the position of the file otherwise.
WriteOffset(t) ==
    LET f == loc[t].file
    IN  IF files[f].append THEN nodes[files[f].node].size ELSE files[f].pos

\* The answer of a read or a write: a write answered EOK has stored its bytes
\* at WriteOffset and left the position behind them; a read answered EOK
\* has moved the position by the bytes read; after an answer that is not EOK
\* the position is what failed(t) gives.
AppendWritesFor(failed(_)) ==
    \A t \in Tasks :
        RdwrAnswered(t) =>
            LET f == loc[t].file
                tr == nodes[files[f].node].triplet
                e == journal'[Len(journal')]
                old == b_data[tr.fs_handle][tr.index]
            IN  /\ e.op = loc[t].op /\ e.file = f /\ e.rc = loc'[t].rc
                /\ IF loc'[t].rc # "EOK"
                   THEN /\ files'[f].pos = failed(t)
                        /\ b_data' = b_data
                   ELSE IF loc[t].flag
                   THEN /\ files'[f].pos = files[f].pos + Transferred
                        /\ e.data = DataRead(old, files[f].pos, e.count)
                   ELSE /\ files'[f].pos = WriteOffset(t) + Transferred
                        /\ b_data'[tr.fs_handle][tr.index] =
                              DataWrite(old, WriteOffset(t), e.payload)

\* The position before the request.
PositionBefore(t) == files[loc[t].file].pos

\* The position before the request, or the cached size of the node for a
\* write on a file that appends.
PositionOrEnd(t) == IF loc[t].flag THEN PositionBefore(t) ELSE WriteOffset(t)

\* C32. Append writes: a write on a file opened with append is forwarded at
\* the node's size, whatever the position was, and leaves the position at
\* that size plus the bytes written; a write on a file without append is
\* forwarded at the position p and leaves p plus the bytes written; a read
\* or a write that fails leaves the position as it was.
AppendWrites == [][AppendWritesFor(PositionBefore)]_vars

\* The same, but a write that fails on a file that appends leaves the
\* position at the node's size.
AppendWritesFailedAtEnd == [][AppendWritesFor(PositionOrEnd)]_vars

\* A write of one byte on the file that appends has been answered EOK after
\* a seek: the file has two bytes and the position is 2.
AppendWritesSeen ==
    /\ files[1].append
    /\ journal # <<>>
    /\ journal[Len(journal)].op = "write" /\ journal[Len(journal)].rc = "EOK"
    /\ journal[Len(journal)].pos = 0
    /\ b_data[1][2] = <<"x", "x">>
    /\ files[1].pos = 2

\* ------------------------------------------------ the words of a seek reply

\* The words of an answer are WordBits bits wide where off64_t has OffBits.
WordBits == OffBits \div 2
WordModulus == 2 ^ WordBits

\* sysarg_t is as wide as a word, or as two, as the server is built.
SysargBits == {WordBits, 2 * WordBits}

\* (sysarg_t) v
Sysarg(v, bits) == v % (2 ^ bits)

LOWER32(v) == v % WordModulus
UPPER32(v) == (v \div WordModulus) % WordModulus
MERGE_LOUP32(lo, up) == (lo % WordModulus) + (up % WordModulus) * WordModulus

\* The two words after the status of the answer to a seek: SEEK_SET answers
\* async_answer_1(rid, EOK, off), SEEK_CUR and SEEK_END answer
\* async_answer_2(rid, EOK, LOWER32(newoff), UPPER32(newoff)).
SeekReplyWords(whence, newoff, bits) ==
    IF whence = "SEEK_SET"
    THEN << Sysarg(newoff, bits), 0 >>
    ELSE << Sysarg(LOWER32(newoff), bits), Sysarg(UPPER32(newoff), bits) >>

\* The seek of fibril t is answered in this step.
SeekIsAnswered(t) ==
    pc[t] \in {"sk_mutex", "sk_contents"} /\ pc'[t] = "ret"

\* C33. Seek reply encoding: a seek answered EOK, with whatever whence,
\* answers the low word and the high word of min(new position, OFF64_MAX),
\* and the two words recombined are that value, however the server is built.
SeekReplyEncodes ==
    [][\A t \in Tasks :
          (SeekIsAnswered(t) /\ loc'[t].rc = "EOK")
             => LET e == journal'[Len(journal')]
                    pos == files'[loc[t].file].pos
                IN  \A bits \in SysargBits :
                       LET w == SeekReplyWords(e.whence, e.reply, bits)
                       IN  /\ w[1] = LOWER32(Clamped(pos))
                           /\ w[2] = UPPER32(Clamped(pos))
                           /\ MERGE_LOUP32(w[1], w[2]) = Clamped(pos)
      ]_vars

\* ------------------------------------------------ mount points are pinned

\* The triplets that a file system is mounted on.
MountPoints == { m.mp : m \in b_mounts } \ {NoTrip}

\* While something is mounted on it, a node is cached with a reference and
\* the backend has it.
MountPointsHeld ==
    \A mp \in MountPoints : RefsOn(nodes, mp) >= 1 /\ Exists(b_type, mp)

\* The references that the handler of t holds to node n between two steps.
OwnRefs(t, n) == Cardinality({ r \in InFlightRefs : r[1] = t /\ r[3] = n })

\* The step ends a VFS_OUT_MOUNT of t, with the reference to mp_node taken
\* for it at 163-175: when the mount is made the reference stays, when it is
\* not the reference is given back and nothing is mounted.
MountPins(t) ==
    (pc[t] = "mi_mount" /\ pc'[t] # "mi_mount") =>
        LET mp == nodes[loc[t].node].triplet
        IN  IF pc'[t] = "m_mtab"
            THEN /\ RefsOn(nodes', mp) = RefsOn(nodes, mp)
                 /\ b_mounts' = b_mounts \cup {[mp |-> mp, mr |-> Trip(loc[t].fs, 0)]}
                 /\ b_mounts' # b_mounts
            ELSE /\ loc'[t].rc # "EOK"
                 /\ RefsOn(nodes', mp) = RefsOn(nodes, mp) - OwnRefs(t, loc[t].node)
                 /\ OwnRefs(t, loc[t].node) = 1
                 /\ b_mounts' = b_mounts

\* The step ends a VFS_OUT_UNMOUNT of t, which holds a reference of its own
\* to mp_node: when the unmount is made that reference and the mount's are
\* given back, when it is not only the handler's own are (two, when the path
\* names no mount and mr_node and mp_node are one node).
UnmountUnpins(t) ==
    (pc[t] = "um_unmount" /\ pc'[t] # "um_unmount") =>
        LET mp == nodes[loc[t].node2].triplet
        IN  IF pc'[t] = "um_mtab"
            THEN /\ RefsOn(nodes', mp) = RefsOn(nodes, mp) - 2
                 /\ b_mounts' = { m \in b_mounts : m.mp # mp }
                 /\ Cardinality(b_mounts \ b_mounts') = 1
            ELSE /\ loc'[t].rc # "EOK"
                 /\ RefsOn(nodes', mp) = RefsOn(nodes, mp) - OwnRefs(t, loc[t].node2)
                 /\ b_mounts' = b_mounts

\* A mount or an unmount that fails before its reference to the mount point
\* is taken leaves the references to every mount point alone.
EarlyFailureKeeps(t) ==
    (/\ pc[t] \in {"mi_lock", "mi_mounted", "mi_lookup",
                   "um_lock", "um_lookup", "um_lookup_mp"}
     /\ pc'[t] = "ret") =>
        \A mp \in MountPoints : RefsOn(nodes', mp) = RefsOn(nodes, mp)

\* No step but the end of a successful VFS_OUT_UNMOUNT takes a file system
\* off a mount point.
OnlyUnmountUnpins ==
    (\E m \in b_mounts : m.mp # NoTrip /\ m \notin b_mounts') =>
        \E t \in Tasks : pc[t] = "um_unmount" /\ pc'[t] = "um_mtab"

MountPointSteps ==
    /\ OnlyUnmountUnpins
    /\ \A t \in Tasks : MountPins(t) /\ UnmountUnpins(t) /\ EarlyFailureKeeps(t)

\* C34. Mount-point pinning: while a file system is mounted on a node the
\* node is cached with at least one reference and the backend never destroys
\* it; the mount's reference stays when the mount is made and is given back
\* once, by the successful unmount; a mount or an unmount that fails leaves
\* the mount point with the references it had before the request.
MountPointPinned == []MountPointsHeld /\ [][MountPointSteps]_vars

\* An unmount of /a was refused by the backend and the mount still holds the
\* only reference to the mount point.
MountPointPinnedSeen ==
    \E t \in Tasks :
        /\ pc[t] = "ret" /\ loc[t].op = "unmount" /\ loc[t].rc = "EIO"
        /\ Trip(1, 1) \in MountPoints
        /\ RefsOn(nodes, Trip(1, 1)) = 1
        /\ \A u \in Tasks \ {t} : pc[u] = "idle"

\* ---------------------------------------------------------- vfs_get_mtab

\* What a client may send while the list is streamed to it.
ClientMsgs == {"VFS_IN_PING", "IPC_M_DATA_READ"}

\* The options of an entry, which the list of the model does not keep.
NoOpts == <<>>

\* A first answer that counts no entry.
MtabCountNone(list, size) == 0

\* "Send to the caller the number of mounted filesystems"
MtabCount(list, size) == size

\* exit: the mutex is unlocked and the request answered.  got and sent keep
\* what the client sent and what it was given.
GetMtabExit(t, rc, got, sent) ==
    /\ mtab_list_lock' = NULL
    /\ pc' = [pc EXCEPT ![t] = "ret"]
    /\ loc' = [loc EXCEPT ![t] = [Loc0 EXCEPT !.op = "get_mtab", !.answers = 1,
                                              !.rc = rc, !.got = got,
                                              !.sent = sent]]

VfsGetMtabStart(t) ==
    /\ At(t, "idle")
    /\ Goto(t, "gm_lock", [Loc0 EXCEPT !.op = "get_mtab"])
    /\ UNCHANGED <<vfs_vars, backend_vars, history_vars>>

\* fibril_mutex_lock(&mtab_list_lock)
VfsGetMtabLock(t) ==
    /\ At(t, "gm_lock")
    /\ mtab_list_lock = NULL
    /\ mtab_list_lock' = t
    /\ Goto(t, "gm_ping", loc[t])
    /\ UNCHANGED <<root, nodes, fds, files, namespace_rwlock, mtab_list,
                   mtab_size, backend_vars, history_vars>>

\* The first call of the client: a ping is answered with the number of
\* entries, and the walk of the list begins.
VfsGetMtabPing(t, msgs) ==
    /\ At(t, "gm_ping")
    /\ \E msg \in msgs :
          LET got == Append(loc[t].got, msg)
              sent == Append(loc[t].sent, MtabCount(mtab_list, mtab_size))
          IN  IF msg # "VFS_IN_PING"
              THEN GetMtabExit(t, "ENOTSUP", got, loc[t].sent)
              ELSE IF mtab_list = <<>>
              THEN GetMtabExit(t, "EOK", got, sent)
              ELSE /\ Goto(t, "gm_mp", [loc[t] EXCEPT !.got = got, !.sent = sent,
                                                      !.cur = 1])
                   /\ UNCHANGED mtab_list_lock
    /\ UNCHANGED <<root, nodes, fds, files, namespace_rwlock, mtab_list,
                   mtab_size, backend_vars, history_vars>>

\* The field of the entry that is given at a label, and the label after it.
MtabField(label, ent) ==
    IF label = "gm_mp" THEN ent.mp
    ELSE IF label = "gm_opts" THEN NoOpts
    ELSE ent.fs_name

MtabAfter(label) ==
    IF label = "gm_mp" THEN "gm_opts"
    ELSE IF label = "gm_opts" THEN "gm_fs_name"
    ELSE "gm_entry"

\* One of the three data reads of an entry: its mount point, its options,
\* the name of its file system.
VfsGetMtabRead(t, msgs) ==
    /\ Alive
    /\ pc[t] \in {"gm_mp", "gm_opts", "gm_fs_name"}
    /\ \E msg \in msgs :
          LET got == Append(loc[t].got, msg)
              sent == Append(loc[t].sent,
                             MtabField(pc[t], mtab_list[loc[t].cur]))
          IN  IF msg # "IPC_M_DATA_READ"
              THEN GetMtabExit(t, "ENOTSUP", got, loc[t].sent)
              ELSE /\ Goto(t, MtabAfter(pc[t]),
                           [loc[t] EXCEPT !.got = got, !.sent = sent])
                   /\ UNCHANGED mtab_list_lock
    /\ UNCHANGED <<root, nodes, fds, files, namespace_rwlock, mtab_list,
                   mtab_size, backend_vars, history_vars>>

\* The ping that ends an entry is answered with its instance and service,
\* and the walk goes on to the next entry, or ends.
VfsGetMtabEntry(t, msgs) ==
    /\ At(t, "gm_entry")
    /\ \E msg \in msgs :
          LET ent == mtab_list[loc[t].cur]
              got == Append(loc[t].got, msg)
              sent == Append(loc[t].sent, <<ent.instance, ent.service_id>>)
          IN  IF msg # "VFS_IN_PING"
              THEN GetMtabExit(t, "ENOTSUP", got, loc[t].sent)
              ELSE IF loc[t].cur = Len(mtab_list)
              THEN GetMtabExit(t, "EOK", got, sent)
              ELSE /\ Goto(t, "gm_mp", [loc[t] EXCEPT !.got = got, !.sent = sent,
                                                      !.cur = @ + 1])
                   /\ UNCHANGED mtab_list_lock
    /\ UNCHANGED <<root, nodes, fds, files, namespace_rwlock, mtab_list,
                   mtab_size, backend_vars, history_vars>>

GetMtabNext(t, msgs) ==
    \/ VfsGetMtabStart(t) \/ VfsGetMtabLock(t) \/ VfsGetMtabPing(t, msgs)
    \/ VfsGetMtabRead(t, msgs) \/ VfsGetMtabEntry(t, msgs)

\* The list is streamed while file systems are mounted and unmounted.
NextMtab ==
    \/ \E t \in Openers : GetMtabNext(t, ClientMsgs)
    \/ \E t \in Seekers : MountNext(t, FsInsts)
    \/ \E t \in Tasks : UnmountNext(t) \/ NextRequest(t)

SpecMtab == InitMounted /\ [][NextMtab]_vars

\* ----------------------------------------------- what get_mtab streams

\* What a client that follows the handshake sends for a list: a ping, then
\* three data reads and a ping for each entry.
RECURSIVE Handshake(_)
Handshake(list) ==
    IF list = <<>> THEN << "VFS_IN_PING" >>
    ELSE Handshake(SubSeq(list, 1, Len(list) - 1)) \o
         << "IPC_M_DATA_READ", "IPC_M_DATA_READ", "IPC_M_DATA_READ",
            "VFS_IN_PING" >>

\* What such a client is given: the number of entries, then each entry in
\* the order of the list.
RECURSIVE StreamOf(_)
StreamOf(list) ==
    IF list = <<>> THEN << 0 >>
    ELSE LET n == Len(list)
             ent == list[n]
             before == StreamOf(SubSeq(list, 1, n - 1))
         IN  << n >> \o Tail(before) \o
             << ent.mp, NoOpts, ent.fs_name, <<ent.instance, ent.service_id>> >>

GetMtabLabels == {"gm_ping", "gm_mp", "gm_opts", "gm_fs_name", "gm_entry"}

\* The fibril that streams the list holds the mutex.
GetMtabLocked == \A t \in Tasks : pc[t] \in GetMtabLabels => mtab_list_lock = t

\* While a fibril streams the list, the list and its count stay.
GetMtabSnapshot ==
    \A t \in Tasks :
        pc[t] \in GetMtabLabels => mtab_list' = mtab_list /\ mtab_size' = mtab_size

\* The step answers the get_mtab of t: the mutex is free again; a client that
\* followed the handshake to its end was given the number of entries and each
\* entry once, in order, and is answered EOK; a client that did not is
\* answered ENOTSUP, having been given what it asked for properly until then.
GetMtabAnswer(t) ==
    (pc[t] \in GetMtabLabels /\ pc'[t] = "ret") =>
        LET got == loc'[t].got
            sent == loc'[t].sent
            want == Handshake(mtab_list)
            good == Len(got) - 1
        IN  /\ mtab_list_lock' = NULL
            /\ loc'[t].answers = 1
            /\ IF got = want
               THEN loc'[t].rc = "EOK" /\ sent = StreamOf(mtab_list)
               ELSE /\ loc'[t].rc = "ENOTSUP"
                    /\ Len(got) <= Len(want)
                    /\ SubSeq(got, 1, good) = SubSeq(want, 1, good)
                    /\ got[Len(got)] # want[Len(got)]
                    /\ sent = SubSeq(StreamOf(mtab_list), 1, good)

GetMtabSteps == GetMtabSnapshot /\ \A t \in Tasks : GetMtabAnswer(t)

\* C35. get_mtab streams a consistent snapshot: while the list is streamed
\* no mount or unmount changes it; the first ping is answered with the number
\* of entries; a client that follows the handshake is given each entry once,
\* in the order of the list, and is answered EOK; a client that breaks the
\* handshake is answered ENOTSUP, and the mutex is released.
GetMtabConsistent == []GetMtabLocked /\ [][GetMtabSteps]_vars

\* A list of two entries was streamed whole to a client that followed the
\* handshake, while a mount waited for the mutex.
GetMtabConsistentSeen ==
    \E t \in Tasks :
        /\ pc[t] = "ret" /\ loc[t].op = "get_mtab" /\ loc[t].rc = "EOK"
        /\ Len(mtab_list) = 2
        /\ loc[t].sent = StreamOf(mtab_list)
        /\ \E u \in Tasks : pc[u] = "m_mtab"

\* -------------------------------------------- directories are not written

\* The file records of directories.
DirFiles ==
    { f \in FileIds : files[f].node # NULL /\ nodes[files[f].node].type = "dir" }

\* The words that ask for writing.
WriteModes == {"MODE_WRITE", "MODE_APPEND"}

\* No descriptor of a directory is open for writing between two steps, no
\* write of a directory is past the locks, and assert(read) has not failed.
NoDirectoryWrite ==
    /\ \A f \in DirFiles : ~files[f].open_write
    /\ \A t \in Tasks :
          /\ (pc[t] \in {"rw_nslock", "rw_io"} /\ ~loc[t].flag) =>
                loc[t].file \notin DirFiles
          /\ ~(pc[t] = "abort" /\ "assert_read" \in loc[t].notes)

\* The step serves an open of a directory that asks for writing with bits
\* the descriptor permits: it is answered EINVAL at once.
DirectoryOpenRefused(t) ==
    (/\ pc[t] = "idle" /\ pc'[t] # "idle" /\ loc'[t].op = "open"
     /\ loc'[t].file \in DirFiles
     /\ loc'[t].flags \cap WriteModes # {}
     /\ ~OpenDenied(loc'[t].flags, files[loc'[t].file].permissions)) =>
        pc'[t] = "ret" /\ loc'[t].rc = "EINVAL"

RenameLabels ==
    {"rn_base", "rn_unlink_new", "rn_unlink_old", "rn_link", "rn_relink_old",
     "rn_relink_new"}

\* While a rename changes names it is the writer of the name space lock and
\* no walk has a lookup with the backends.
RenameExcludesWalks ==
    \A t \in Tasks :
        pc[t] \in RenameLabels =>
            /\ namespace_rwlock.writer = t
            /\ Readers(namespace_rwlock) = 0
            /\ \A u \in Tasks : pc[u] # "w_lookup"

\* The lock is kept from step to step of the rename and released in the step
\* that returns, not before and not twice.
RenameKeepsLock(t) ==
    (pc[t] \in RenameLabels) =>
        IF pc'[t] \in RenameLabels
        THEN namespace_rwlock' = namespace_rwlock
        ELSE /\ pc'[t] = "ret"
             /\ namespace_rwlock.writer = t
             /\ namespace_rwlock' = NoLock

\* The step returns from a rename that had unlinked an existing new.
RenameDisplaced(t) == pc[t] \in RenameLabels /\ pc'[t] = "ret" /\ loc[t].flag

\* What new names when the lock is released.
NewAtRelease(t) == NamesIn(b_type', b_ents', loc[t].base, loc[t].path2)

\* new names the displaced node or old's, whatever the rename's outcome.
NewDisplacedOrOld(t) ==
    NewAtRelease(t) \in {loc[t].pre_a, loc[t].pre_b} \ {NoTrip}

\* new names old's node after a rename answered EOK and the displaced node
\* after a failed rename whose link of that node back at new was accepted;
\* it names nothing only when that link was refused.
NewUnlessUndoRefused(t) ==
    /\ NewAtRelease(t) \in {loc[t].pre_a, loc[t].pre_b, NoTrip}
    /\ loc'[t].rc = "EOK" => NewAtRelease(t) = loc[t].pre_a /\ loc[t].pre_a # NoTrip
    /\ (loc'[t].rc # "EOK" /\ "undone_new" \in loc'[t].notes) =>
          NewAtRelease(t) = loc[t].pre_b /\ loc[t].pre_b # NoTrip
    /\ NewAtRelease(t) = NoTrip =>
          loc'[t].rc # "EOK" /\ "undone_new" \notin loc'[t].notes

\* A walk answers ENOENT only for a path that named nothing when its lookup
\* was sent, the name space lock being free of writers.
WalkSeesNames(u) ==
    (pc[u] = "w_lookup" /\ pc'[u] = "ret" /\ loc'[u].rc = "ENOENT") =>
        /\ namespace_rwlock.writer = NULL
        /\ NamesIn(b_type, b_ents, loc[u].base, loc[u].path) = NoTrip

RenameSteps(names(_)) ==
    \A t \in Tasks :
        /\ RenameKeepsLock(t)
        /\ WalkSeesNames(t)
        /\ RenameDisplaced(t) => names(t)

NextMtabNames ==
    \/ \E t \in Renamers : RenameNext(t)
    \/ \E t \in Tasks \ Renamers :
          \/ VfsUnmountStartAt(t, MountPaths \cup { <<"/", "b">> })
          \/ VfsUnmountLock(t) \/ VfsUnmountLookup(t) \/ VfsUnmountUnmounted(t)
          \/ VfsUnmountLookupMp(t) \/ VfsUnmountUnmount(t) \/ VfsUnmountMtab(t)
    \/ \E t \in Tasks : NextRequest(t)

SpecMtabNames == InitMounted /\ [][NextMtabNames]_vars

\* An unmount that has reached the removal of its entry finds one for its
\* path, and has not failed assert(found).
UnmountFindsEntry(t) ==
    /\ pc[t] = "um_mtab" => MtabFind(mtab_list, loc[t].path, 1) # 0
    /\ ~(pc[t] = "abort" /\ "assert_found" \in loc[t].notes)

\* C38. Mount table tracks mounts: whenever an unmount reaches the removal
\* of its entry from the list of mounted file systems, the list has an entry
\* whose mount point is the path of the request, so that assert(found) does
\* not fail; and mtab_size is the number of entries of the list.
MtabTracksMounts ==
    /\ \A t \in Tasks : UnmountFindsEntry(t)
    /\ mtab_size = Len(mtab_list)

\* mtab_size is the number of entries of the list.
MtabSizeIsLength == mtab_size = Len(mtab_list)

\* ------------------------------------------------ mounts within mounts

\* The file systems mounted on a directory of file system fs.
MountedWithin(fs) == { m \in b_mounts : m.mp # NoTrip /\ m.mp.fs_handle = fs }

\* The unmount served by t, its path received, is past its lookup while a
\* file system is mounted on a directory of the one mounted at the path.
UnmountNested(t) ==
    /\ pc[t] = "um_lookup" /\ pc'[t] # "um_lookup"
    /\ "no_path" \notin loc[t].notes
    /\ UnmountTarget(t) # NoTrip
    /\ MountedWithin(UnmountTarget(t).fs_handle) # {}

\* The step unmounts file system fs.
Unmounts(fs) == fs \in b_inst /\ fs \notin b_inst'

\* A file system is unmounted only when nothing is mounted within it.
InnermostFirst == \A fs \in FsInsts : Unmounts(fs) => MountedWithin(fs) = {}

\* The unmounts of a file system with another mounted within it are
\* answered EBUSY, or the error of the lookup of the path when that lookup
\* fails, and change nothing.
NestedRefused ==
    \A t \in Tasks :
        UnmountNested(t) =>
            UnmountLeftIntact(t) /\ loc'[t].rc \in {"EBUSY", "EIO"}

NestedRequestsRefused == [][NestedRefused]_vars

\* C39. Nested mounts block unmount: while a file system is mounted on a
\* directory of F, an unmount of F, the root included, is refused (EBUSY, or
\* the error of the lookup of the path) and changes nothing, whether or not
\* a slot refers to F; F is unmounted only after what is mounted within it.
NestedBlocksUnmount == [][NestedRefused /\ InnermostFirst]_vars

\* --------------------------------------- a client that stops responding

\* The steps of the server in a mount or an unmount of t, once the request
\* has come in: the locks are given in turn and the backends answer.
MountServed(t) ==
    \/ VfsMountLock(t) \/ VfsMountMounted(t) \/ VfsMountLookup(t)
    \/ VfsMountMount(t) \/ VfsMountMtab(t)
    \/ VfsUnmountLock(t) \/ VfsUnmountLookup(t) \/ VfsUnmountUnmounted(t)
    \/ VfsUnmountLookupMp(t) \/ VfsUnmountUnmount(t) \/ VfsUnmountMtab(t)

\* The steps of get_mtab that wait for a call of the client.
ClientCalls(t) ==
    \/ VfsGetMtabPing(t, ClientMsgs) \/ VfsGetMtabRead(t, ClientMsgs)
    \/ VfsGetMtabEntry(t, ClientMsgs)

\* One client asks for the list of mounts while the others mount and unmount.
NextStall ==
    \/ \E t \in Openers : GetMtabNext(t, ClientMsgs)
    \/ \E t \in Seekers : MountNext(t, TwoFs) \/ UnmountNext(t)
    \/ \E t \in Tasks : NextRequest(t)

\* The mutexes and the rwlocks wake their waiters in turn and the backends
\* answer, so that a mount or an unmount that can go on infinitely often
\* does; the client of get_mtab may stop at any call.
SpecStall ==
    /\ InitMounted
    /\ [][NextStall]_vars
    /\ \A t \in Seekers : SF_vars(MountServed(t))
    /\ \A t \in Openers : WF_vars(VfsGetMtabLock(t))

\* The same, with a client of get_mtab that sends every call it is waited
\* for.
SpecNoStall ==
    /\ SpecStall
    /\ \A t \in Openers : WF_vars(ClientCalls(t))

\* The labels of a mount or an unmount that is being served.
MountLabels ==
    {"mi_lock", "mi_mounted", "mi_lookup", "mi_mount", "m_mtab",
     "um_lock", "um_lookup", "um_unmounted", "um_lookup_mp", "um_unmount",
     "um_mtab"}

\* C40. A stalled get_mtab client does not block others: a mount or an
\* unmount of another client that is being served, the backends answering,
\* is eventually answered, even when the client of a get_mtab stops sending
\* the calls of the handshake.
MountsComplete ==
    \A t \in Seekers : (pc[t] \in MountLabels) ~> (pc[t] \in {"ret", "abort"})

====
